---- MODULE Spec2Model ----
(***************************************************************************)
(* Verification model of the doc-prescription repository.                  *)
(*                                                                         *)
(* The heuristic PrescriptionParser (services/PrescriptionParser.ts) is    *)
(* modelled at character level: a text is a sequence of one-character      *)
(* strings, and every regular expression of the source is written as a     *)
(* syntax tree that a backtracking matcher (with the leftmost-first,       *)
(* greedy/lazy semantics of ECMAScript) runs over the text.                *)
(***************************************************************************)
EXTENDS Integers, Sequences, FiniteSets, TLC

(***************************************************************************)
(* Characters and strings                                                  *)
(***************************************************************************)

\* A TLA+ string as the sequence of its characters, and back.
Chars(s) == [i \in 1..Len(s) |-> SubSeq(s, i, i)]

RECURSIVE Str(_)
Str(cs) ==
    IF Len(cs) = 0 THEN ""
    ELSE IF Len(cs) = 1 THEN cs[1]
    ELSE LET h == Len(cs) \div 2
         IN  Str(SubSeq(cs, 1, h)) \o Str(SubSeq(cs, h + 1, Len(cs)))

Range(f) == {f[i] : i \in DOMAIN f}

\* const v = ...; F(v): the value v computed once and named in F.
Let(v, F(_)) == F(v)

UpperSeq == Chars("ABCDEFGHIJKLMNOPQRSTUVWXYZ")
LowerSeq == Chars("abcdefghijklmnopqrstuvwxyz")
Upper == Range(UpperSeq)
Lower == Range(LowerSeq)
Letter == Upper \cup Lower
Digit == Range(Chars("0123456789"))
\* \w and \s of ECMAScript, restricted to the characters the inputs use.
WordChar == Letter \cup Digit \cup {"_"}
Space == {" ", "\n", "\t"}
LineTerminator == {"\n", "\r"}

\* The other case of a letter (canonicalisation of the i flag).
SwapCase(c) ==
    IF c \in Upper THEN LowerSeq[CHOOSE i \in 1..26 : UpperSeq[i] = c]
    ELSE IF c \in Lower THEN UpperSeq[CHOOSE i \in 1..26 : LowerSeq[i] = c]
    ELSE c

\* A character set under the i flag: both cases of each of its letters.
FoldCase(s) == s \cup {SwapCase(c) : c \in s}

(***************************************************************************)
(* Regular expressions: syntax trees                                       *)
(* A regular expression is a sequence of nodes (a concatenation).          *)
(***************************************************************************)

\* The quantifiers * and + have no upper bound.
Unbounded == -1

CharSet(s) == [t |-> "set", s |-> s]
NotSet(s) == [t |-> "nset", s |-> s]
\* . : any character but a line terminator.
Dot == NotSet(LineTerminator)
Greedy(r, min, max) == [t |-> "rep", r |-> r, min |-> min, max |-> max, lazy |-> FALSE]
Lazy(r, min, max) == [t |-> "rep", r |-> r, min |-> min, max |-> max, lazy |-> TRUE]
Opt(r) == Greedy(r, 0, 1)
Star(r) == Greedy(r, 0, Unbounded)
Plus(r) == Greedy(r, 1, Unbounded)
LazyPlus(r) == Lazy(r, 1, Unbounded)
\* (r) as capture group k; (?:r1|r2|...) ; \b ; $ ; ^
Group(k, r) == [t |-> "grp", k |-> k, r |-> r]
Alt(rs) == [t |-> "alt", rs |-> rs]
WordBoundary == [t |-> "wb"]
EndOfInput == [t |-> "end"]

\* A literal string, case-sensitive and under the i flag.
Literal(cs) == IF Len(cs) = 1 THEN <<CharSet(cs[1])>> ELSE <<[t |-> "lit", cs |-> cs]>>
Lit(s) == Literal([i \in 1..Len(s) |-> {SubSeq(s, i, i)}])
LitI(s) == Literal([i \in 1..Len(s) |-> FoldCase({SubSeq(s, i, i)})])
\* \s+ , \s* , \d+
Ws1 == <<Plus(<<CharSet(Space)>>)>>
Ws0 == <<Star(<<CharSet(Space)>>)>>
Digits1 == <<Plus(<<CharSet(Digit)>>)>>

(***************************************************************************)
(* The backtracking matcher                                                *)
(***************************************************************************)

\* A capture is <<from, to>>: the characters from..to-1; <<0, 0>> is undefined.
NoCapture == <<0, 0>>
NoCaptures(n) == [k \in 1..n |-> NoCapture]
Fail == [ok |-> FALSE]

IsWordAt(text, i) == i >= 1 /\ i <= Len(text) /\ text[i] \in WordChar

\* The length of the longest run of characters from position i that the
\* one-character node n accepts, at most max (Unbounded: no limit).
Accepts(n, c) == IF n.t = "set" THEN c \in n.s ELSE c \notin n.s
RunLength(text, n, i, max) ==
    LET limit == IF max = Unbounded \/ i + max - 1 > Len(text) THEN Len(text) - i + 1 ELSE max
        stops == {k \in 0..limit - 1 : ~Accepts(n, text[i + k])}
    IN  IF stops = {} THEN limit
        ELSE CHOOSE k \in stops : \A j \in stops : k <= j

IsSingle(r) == Len(r) = 1 /\ r[1].t \in {"set", "nset"}

\* Whether a match of the node list can begin at a position whose character
\* is c (EndMark past the last character). It only spares the matcher the
\* positions where the first character already rules a match out.
EndMark == ""
RECURSIVE CanStart(_, _)
CanStart(nodes, c) ==
    IF Len(nodes) = 0 THEN TRUE
    ELSE LET n == Head(nodes)
         IN  CASE n.t = "set" -> c \in n.s
               [] n.t = "lit" -> c \in n.cs[1]
               [] n.t = "nset" -> c # EndMark /\ c \notin n.s
               [] n.t = "grp" -> CanStart(n.r \o Tail(nodes), c)
               [] n.t = "alt" -> \E j \in 1..Len(n.rs) : CanStart(n.rs[j] \o Tail(nodes), c)
               [] n.t = "rep" -> \/ n.max # 0 /\ CanStart(n.r, c)
                                 \/ n.min = 0 /\ CanStart(Tail(nodes), c)
               [] OTHER -> CanStart(Tail(nodes), c)

CharAt(text, i) == IF i <= Len(text) THEN text[i] ELSE EndMark

\* Of the repeat counts k whose continuation m matches, the one the quantifier
\* takes: the smallest if it is lazy, the largest if it is greedy.
Preferred(good, lazy) ==
    IF good = {} THEN Fail
    ELSE (CHOOSE c \in good : \A d \in good : IF lazy THEN c.k <= d.k ELSE c.k >= d.k).m

\* One iteration fewer of a quantified group.
Less(n) ==
    [n EXCEPT !.min = IF n.min > 0 THEN n.min - 1 ELSE 0,
              !.max = IF n.max = Unbounded THEN Unbounded ELSE n.max - 1]
\* The first of two alternatives that matches.
OrElse(a, b) == IF a.ok THEN a ELSE b
\* Whether the characters from position i are those of a literal.
Agrees(text, cs, i) ==
    i + Len(cs) - 1 <= Len(text) /\ \A k \in 1..Len(cs) : text[i + k - 1] \in cs[k]

RECURSIVE MatchAt(_, _, _, _)

\* Match the node list at position i; the node list is the continuation, so a
\* failure further on comes back to the choice points of earlier nodes. A node
\* whose own test fails at i leaves no arm to take but the last.
MatchAt(text, nodes, i, caps) ==
    CASE Len(nodes) = 0 -> [ok |-> TRUE, end |-> i, caps |-> caps]
      [] nodes[1].t = "lit" /\ Agrees(text, nodes[1].cs, i) ->
            MatchAt(text, Tail(nodes), i + Len(nodes[1].cs), caps)
      [] nodes[1].t = "set" /\ i <= Len(text) /\ text[i] \in nodes[1].s ->
            MatchAt(text, Tail(nodes), i + 1, caps)
      [] nodes[1].t = "nset" /\ i <= Len(text) /\ text[i] \notin nodes[1].s ->
            MatchAt(text, Tail(nodes), i + 1, caps)
      [] nodes[1].t = "wb" /\ IsWordAt(text, i - 1) # IsWordAt(text, i) ->
            MatchAt(text, Tail(nodes), i, caps)
      [] nodes[1].t = "end" /\ i = Len(text) + 1 ->
            MatchAt(text, Tail(nodes), i, caps)
      [] nodes[1].t = "bol" /\ i = 1 ->
            MatchAt(text, Tail(nodes), i, caps)
      [] nodes[1].t = "grp" ->
            MatchAt(text, nodes[1].r \o <<[t |-> "close", k |-> nodes[1].k, from |-> i]>>
                              \o Tail(nodes), i, caps)
      [] nodes[1].t = "close" ->
            MatchAt(text, Tail(nodes), i,
                    IF nodes[1].k \in DOMAIN caps
                    THEN [caps EXCEPT ![nodes[1].k] = <<nodes[1].from, i>>] ELSE caps)
      [] nodes[1].t = "alt" ->
            \* The first alternative, in the order written, whose
            \* continuation matches.
            Preferred({c \in {[k |-> j, m |-> MatchAt(text, nodes[1].rs[j] \o Tail(nodes), i, caps)] :
                                  j \in {a \in 1..Len(nodes[1].rs) :
                                            CanStart(nodes[1].rs[a] \o Tail(nodes), CharAt(text, i))}} :
                          c.m.ok},
                      TRUE)
      [] nodes[1].t = "rep" /\ IsSingle(nodes[1].r) ->
            \* A quantified character class: the candidates are the repeat
            \* counts min..run; a greedy quantifier takes the largest count
            \* whose continuation matches, a lazy one the smallest.
            Preferred({c \in {[k |-> k, m |-> MatchAt(text, Tail(nodes), i + k, caps)] :
                                  k \in {j \in nodes[1].min..RunLength(text, nodes[1].r[1], i, nodes[1].max) :
                                            CanStart(Tail(nodes), CharAt(text, i + j))}} : c.m.ok},
                      nodes[1].lazy)
      [] nodes[1].t = "rep" /\ nodes[1].max = 0 ->
            MatchAt(text, Tail(nodes), i, caps)
      [] nodes[1].t = "rep" /\ nodes[1].min > 0 ->
            MatchAt(text, nodes[1].r \o <<Less(nodes[1])>> \o Tail(nodes), i, caps)
      [] nodes[1].t = "rep" /\ nodes[1].lazy ->
            OrElse(MatchAt(text, Tail(nodes), i, caps),
                   MatchAt(text, nodes[1].r \o <<Less(nodes[1])>> \o Tail(nodes), i, caps))
      [] nodes[1].t = "rep" ->
            OrElse(MatchAt(text, nodes[1].r \o <<Less(nodes[1])>> \o Tail(nodes), i, caps),
                   MatchAt(text, Tail(nodes), i, caps))
      [] OTHER -> Fail

\* RegExp.prototype.exec from position `from`: the leftmost match, as
\* [ok, index, end, caps]; String.prototype.match without the g flag is Exec
\* from 1.
Leftmost(good) ==
    LET first == CHOOSE c \in good : \A d \in good : c.index <= d.index
    IN  IF good = {} THEN Fail
        ELSE [ok |-> TRUE, index |-> first.index, end |-> first.m.end, caps |-> first.m.caps]
Exec(text, re, ngroups, from) ==
    Leftmost({c \in {[index |-> i, m |-> MatchAt(text, re, i, NoCaptures(ngroups))] :
                        i \in {j \in from..Len(text) + 1 : CanStart(re, CharAt(text, j))}} :
                c.m.ok})

Search(text, re, ngroups) == Exec(text, re, ngroups, 1)
Test(text, re) == Search(text, re, 0).ok

\* An optional value: None is undefined/null, Some(v) a value.
None == <<>>
Some(v) == <<v>>

\* m[k] of a match: the captured characters, or None when the group did not
\* take part in the match.
Slice(text, from, to) == SubSeq(text, from, to - 1)
Cap(text, m, k) ==
    IF m.caps[k] = NoCapture THEN None
    ELSE Some(Slice(text, m.caps[k][1], m.caps[k][2]))
\* m?.[k] of a match that may be null.
OptCap(text, m, k) == IF m.ok THEN Cap(text, m, k) ELSE None
\* m[0]
Whole(text, m) == Slice(text, m.index, m.end)

(***************************************************************************)
(* String operations of the source                                         *)
(***************************************************************************)

\* String.prototype.trim
Trim(cs) ==
    LET keep == {i \in 1..Len(cs) : cs[i] \notin Space}
        lo == CHOOSE i \in keep : \A j \in keep : i <= j
        hi == CHOOSE i \in keep : \A j \in keep : i >= j
    IN  IF keep = {} THEN <<>> ELSE SubSeq(cs, lo, hi)

\* x?.trim()
OptTrim(o) == IF o = None THEN None ELSE Some(Trim(o[1]))
\* x || "" and x || undefined, for an optional string.
OrEmpty(o) == IF o = None THEN <<>> ELSE o[1]
OrUndefined(o) == IF o = None \/ o[1] = <<>> THEN None ELSE o

\* String.prototype.split on a one-character separator set (/\n/, /\n|;|\.|,/).
RECURSIVE SplitFrom(_, _, _)
SplitFrom(cs, seps, from) ==
    LET cuts == {i \in from..Len(cs) : cs[i] \in seps}
        cut == CHOOSE i \in cuts : \A j \in cuts : i <= j
    IN  IF cuts = {} THEN <<SubSeq(cs, from, Len(cs))>>
        ELSE <<SubSeq(cs, from, cut - 1)>> \o SplitFrom(cs, seps, cut + 1)
Split(cs, seps) == SplitFrom(cs, seps, 1)

\* .map(s => s.trim()).filter(Boolean)
RECURSIVE TrimAll(_)
TrimAll(parts) ==
    IF Len(parts) = 0 THEN <<>>
    ELSE LET t == Trim(Head(parts))
         IN  (IF t = <<>> THEN <<>> ELSE <<t>>) \o TrimAll(Tail(parts))

\* String.prototype.indexOf (1-based; 0 when absent) and includes.
IndexOf(cs, sub) ==
    LET at == {i \in 1..Len(cs) - Len(sub) + 1 : SubSeq(cs, i, i + Len(sub) - 1) = sub}
    IN  IF at = {} THEN 0 ELSE CHOOSE i \in at : \A j \in at : i <= j
Includes(cs, sub) == IndexOf(cs, sub) # 0

\* cs.replace(sub, ""): the first occurrence of the string sub removed.
RemoveFirst(cs, sub) ==
    LET i == IndexOf(cs, sub)
    IN  IF i = 0 \/ Len(sub) = 0 THEN cs
        ELSE SubSeq(cs, 1, i - 1) \o SubSeq(cs, i + Len(sub), Len(cs))

\* cs.replace(/\s+/g, " "): every run of white space becomes one space.
RECURSIVE CollapseSpaces(_)
CollapseSpaces(cs) ==
    LET sp == {i \in 1..Len(cs) : cs[i] \in Space}
        i == CHOOSE k \in sp : \A j \in sp : k <= j
        run == RunLength(cs, CharSet(Space), i, Unbounded)
    IN  IF sp = {} THEN cs
        ELSE SubSeq(cs, 1, i - 1) \o <<" ">> \o CollapseSpaces(SubSeq(cs, i + run, Len(cs)))

\* cs.replace(/^[,\s]+|[,\s]+$/g, ""): commas and white space stripped at both ends.
StripCommas(cs) ==
    LET keep == {i \in 1..Len(cs) : cs[i] \notin Space \cup {","}}
        lo == CHOOSE i \in keep : \A j \in keep : i <= j
        hi == CHOOSE i \in keep : \A j \in keep : i >= j
    IN  IF keep = {} THEN <<>> ELSE SubSeq(cs, lo, hi)

\* parseInt(digits, 10) of a non-empty digit string.
DigitValue(c) == CHOOSE d \in 0..9 : Chars("0123456789")[d + 1] = c
RECURSIVE ParseInt(_)
ParseInt(ds) ==
    IF Len(ds) = 0 THEN 0
    ELSE 10 * ParseInt(SubSeq(ds, 1, Len(ds) - 1)) + DigitValue(ds[Len(ds)])

\* A list of character sequences as a list of strings.
StrAll(parts) == [i \in 1..Len(parts) |-> Str(parts[i])]
OptStr(o) == IF o = None THEN None ELSE Some(Str(o[1]))

(***************************************************************************)
(* PrescriptionParser: single-value and section extractors                 *)
(***************************************************************************)

\* [A-Z][a-z]+(?:\s+[A-Z][a-z]+)* : the name capture of extractName.
ProperWord == <<CharSet(Upper), Plus(<<CharSet(Lower)>>)>>
ProperName == ProperWord \o <<Star(Ws1 \o ProperWord)>>

NamePatterns ==
    << Lit("Patient") \o Ws1 \o <<Group(1, ProperName)>>,
       Lit("Name:") \o Ws0 \o <<Group(1, ProperName)>>,
       Lit("Mr") \o <<Opt(Lit("."))>> \o Ws1 \o <<Group(1, ProperName)>>,
       Lit("Mrs") \o <<Opt(Lit("."))>> \o Ws1 \o <<Group(1, ProperName)>>,
       Lit("Ms") \o <<Opt(Lit("."))>> \o Ws1 \o <<Group(1, ProperName)>> >>

RECURSIVE FirstNameMatch(_, _)
FirstNameMatch(text, j) ==
    IF j > Len(NamePatterns) THEN None
    ELSE Let(Search(text, NamePatterns[j], 1),
             LAMBDA m : IF m.ok THEN Cap(text, m, 1) ELSE FirstNameMatch(text, j + 1))

\* The capture of the pattern whose match starts first in the text.
leftmostName(text) ==
    LET found == {j \in 1..Len(NamePatterns) : Test(text, NamePatterns[j])}
        first == CHOOSE j \in found : \A k \in found :
                     Search(text, NamePatterns[j], 1).index <= Search(text, NamePatterns[k], 1).index
    IN  IF found = {} THEN None
        ELSE OptStr(Cap(text, Search(text, NamePatterns[first], 1), 1))
extractName(text) == OptStr(FirstNameMatch(text, 1))

\* /(\d{1,3})\s*-?\s*(?:year\s*old|y\/o|years\s*old)/i
AgePattern ==
    <<Group(1, <<Greedy(<<CharSet(Digit)>>, 1, 3)>>)>> \o Ws0 \o <<Opt(Lit("-"))>> \o Ws0
    \o <<Alt(<< LitI("year") \o Ws0 \o LitI("old"),
               LitI("y/o"),
               LitI("years") \o Ws0 \o LitI("old") >>)>>

extractAge(text) ==
    Let(Search(text, AgePattern, 1),
        LAMBDA m : IF m.ok THEN Some(ParseInt(Cap(text, m, 1)[1])) ELSE None)

\* /\bmale\b/i , /\bfemale\b/i
MalePattern == <<WordBoundary>> \o LitI("male") \o <<WordBoundary>>
FemalePattern == <<WordBoundary>> \o LitI("female") \o <<WordBoundary>>

extractGender(text) ==
    IF Test(text, MalePattern) THEN Some("male")
    ELSE IF Test(text, FemalePattern) THEN Some("female")
    ELSE None

\* /(?:phone|contact)\s*[:\-]?\s*(\+?\d[\d\s\-]{7,}\d)/i
PhonePattern ==
    <<Alt(<<LitI("phone"), LitI("contact")>>)>> \o Ws0 \o <<Opt(<<CharSet({":", "-"})>>)>> \o Ws0
    \o <<Group(1, <<Opt(Lit("+")), CharSet(Digit),
                    Greedy(<<CharSet(Digit \cup Space \cup {"-"})>>, 7, Unbounded),
                    CharSet(Digit)>>)>>
\* /[a-zA-Z0-9._%+-]+@[a-zA-Z0-9.-]+\.[a-zA-Z]{2,}/
EmailPattern ==
    << Plus(<<CharSet(Letter \cup Digit \cup {".", "_", "%", "+", "-"})>>), CharSet({"@"}),
       Plus(<<CharSet(Letter \cup Digit \cup {".", "-"})>>), CharSet({"."}),
       Greedy(<<CharSet(Letter)>>, 2, Unbounded) >>
\* /address\s*[:\-]?\s*(.+)/i
AddressPattern ==
    LitI("address") \o Ws0 \o <<Opt(<<CharSet({":", "-"})>>)>> \o Ws0 \o <<Group(1, <<Plus(<<Dot>>)>>)>>

extractContact(text) ==
    [ phone |-> OptStr(OptCap(text, Search(text, PhonePattern, 1), 1)),
      email |-> Let(Search(text, EmailPattern, 0),
                    LAMBDA emailMatch : IF emailMatch.ok THEN Some(Str(Whole(text, emailMatch)))
                                        ELSE None),
      address |-> Let(OptCap(text, Search(text, AddressPattern, 1), 1),
                      LAMBDA address : IF address = None THEN None
                                       ELSE Some(Str(Split(address[1], {"\n"})[1]))) ]

\* A section heading: /(w1|w2|...)\s*[:\-]/i
Heading(alts) == <<Alt(alts)>> \o Ws0 \o <<CharSet({":", "-"})>>
\* Words separated by \s* , under the i flag.
RECURSIVE WordsI(_)
WordsI(ws) ==
    IF Len(ws) = 1 THEN LitI(ws[1])
    ELSE LitI(ws[1]) \o Ws0 \o WordsI(Tail(ws))

\* /\n\s*[A-Z][A-Za-z\s]*\s*[:\-]/ : the next header-like line.
NextHeaderPattern ==
    Lit("\n") \o Ws0 \o <<CharSet(Upper), Star(<<CharSet(Letter \cup Space)>>)>> \o Ws0
    \o <<CharSet({":", "-"})>>

\* extractBlock: None when the heading does not match, else Some(block).
\* rest.slice(0, endIdx) when the next header is found in rest, else rest.
blockOf(rest) ==
    Let(Search(rest, NextHeaderPattern, 0),
        LAMBDA endM : IF endM.ok THEN SubSeq(rest, 1, endM.index - 1) ELSE rest)
extractBlock(text, re) ==
    Let(Search(text, re, 0),
        LAMBDA m : IF ~m.ok THEN None
                   ELSE Some(Trim(blockOf(SubSeq(text, m.end, Len(text))))))

\* extractListAfter: the block split on line breaks, semicolons, periods and commas.
extractListAfter(text, re) ==
    Let(extractBlock(text, re),
        LAMBDA block : IF block = None \/ block[1] = <<>> THEN <<>>
                       ELSE StrAll(TrimAll(Split(block[1], {"\n", ";", ".", ","}))))

\* extractAfter: the rest of the line after the heading, trimmed; None when
\* the heading does not match or the rest is empty.
extractAfter(text, re) ==
    Let(Search(text, re, 0),
        LAMBDA m : IF ~m.ok THEN None
                   ELSE OptStr(OrUndefined(Some(
                            Trim(Split(SubSeq(text, m.end, Len(text)), {"\n"})[1])))))

HistoryHeading == Heading(<<WordsI(<<"past", "medical", "history">>), LitI("history")>>)
AllergiesHeading == LitI("allergies") \o Ws0 \o <<CharSet({":", "-"})>>
CurrentMedsHeading ==
    Heading(<<WordsI(<<"current", "medications">>), WordsI(<<"medications", "currently">>)>>)

\* list.length ? list : undefined
OrNoList(list) == IF Len(list) > 0 THEN Some(list) ELSE None

extractHistory(text) ==
    Let([ pastConditions |-> extractListAfter(text, HistoryHeading),
          allergies |-> extractListAfter(text, AllergiesHeading),
          medsCurrent |-> extractListAfter(text, CurrentMedsHeading) ],
        LAMBDA l :
            IF Len(l.pastConditions) > 0 \/ Len(l.allergies) > 0 \/ Len(l.medsCurrent) > 0
            THEN Some([ pastConditions |-> l.pastConditions,
                        allergies |-> l.allergies,
                        medicationsCurrently |-> OrNoList(l.medsCurrent) ])
            ELSE None)

ConditionsHeading ==
    Heading(<< LitI("assessment"), LitI("conditions"),
               WordsI(<<"presents", "with">>), WordsI(<<"diagnosed", "with">>) >>)

extractCurrentConditions(text) == OrNoList(extractListAfter(text, ConditionsHeading))

\* \d{2,3}
Digits23 == Greedy(<<CharSet(Digit)>>, 2, 3)
\* /\b(\d{2,3}\/\d{2,3})\b\s*(?:mmHg)?/
BpPattern ==
    <<WordBoundary, Group(1, <<Digits23, CharSet({"/"}), Digits23>>), WordBoundary>>
    \o Ws0 \o <<Opt(Lit("mmHg"))>>
\* /\b(\d{2,3})\s*bpm\b/i
HrPattern == <<WordBoundary, Group(1, <<Digits23>>)>> \o Ws0 \o LitI("bpm") \o <<WordBoundary>>
\* /\b(\d{2})\s*(?:breaths\/?min|min)\b/i
RrPattern ==
    <<WordBoundary, Group(1, <<Greedy(<<CharSet(Digit)>>, 2, 2)>>)>> \o Ws0
    \o <<Alt(<<LitI("breaths") \o <<Opt(Lit("/"))>> \o LitI("min"), LitI("min")>>), WordBoundary>>
\* /\b(\d{2,3}(?:\.\d)?)\s*(?:F|C)\b/
TempPattern ==
    <<WordBoundary, Group(1, <<Digits23, Opt(<<CharSet({"."}), CharSet(Digit)>>)>>)>> \o Ws0
    \o <<CharSet({"F", "C"}), WordBoundary>>
\* /\b(\d{2,3})%\b/
Spo2Pattern == <<WordBoundary, Group(1, <<Digits23>>), CharSet({"%"}), WordBoundary>>

\* `${m?.[1]}${unit}` : the reading built whether or not the pattern matched.
unguardedReading(text, m, unit) ==
    Some((IF m.ok THEN Str(Cap(text, m, 1)[1]) ELSE "undefined") \o unit)
\* m?.[1] ? `${m[1]}${unit}` : undefined
Reading(text, m, unit) == IF m.ok THEN Some(Str(Cap(text, m, 1)[1]) \o unit) ELSE None

\* The unit letter that follows the matched number.
matchedUnit(text, m) == IF m.ok THEN " " \o text[m.end - 1] ELSE " F"
\* text.includes(" C") ? "C" : "F"
temperatureUnit(text, m) == IF Includes(text, Chars(" C")) THEN " C" ELSE " F"

extractVitals(text) ==
    Let([ bp |-> Search(text, BpPattern, 1),
          hr |-> Search(text, HrPattern, 1),
          rr |-> Search(text, RrPattern, 1),
          temp |-> Search(text, TempPattern, 1),
          spo2 |-> Search(text, Spo2Pattern, 1) ],
        LAMBDA m :
            IF m.bp.ok \/ m.hr.ok \/ m.rr.ok \/ m.temp.ok \/ m.spo2.ok
            THEN Some([ bloodPressure |-> Reading(text, m.bp, " mmHg"),
                        heartRate |-> Reading(text, m.hr, " bpm"),
                        respiratoryRate |-> Reading(text, m.rr, " breaths/min"),
                        temperature |-> Reading(text, m.temp, temperatureUnit(text, m.temp)),
                        spo2 |-> Reading(text, m.spo2, "%") ])
            ELSE None)

\* /(exam(?:ination)?\s*(?:findings)?|physical\s*exam)\s*[:\-]/i
ExamHeading ==
    Heading(<< LitI("exam") \o <<Opt(LitI("ination"))>> \o Ws0 \o <<Opt(LitI("findings"))>>,
               WordsI(<<"physical", "exam">>) >>)

\* line.split(/:\s*/): parts[0] and parts[1] of a line that holds a colon.
ColonParts(line) ==
    LET p == IndexOf(line, <<":">>)
        after == p + 1 + RunLength(line, CharSet(Space), p + 1, Unbounded)
        tail == SubSeq(line, after, Len(line))
    IN  <<SubSeq(line, 1, p - 1), Split(tail, {":"})[1]>>

ExaminationFinding(line) ==
    IF Includes(line, <<":">>)
    THEN [system |-> Some(Str(ColonParts(line)[1])), description |-> Str(ColonParts(line)[2])]
    ELSE [system |-> None, description |-> Str(line)]

Findings(lines) == [i \in 1..Len(lines) |-> ExaminationFinding(lines[i])]
extractExamination(text) ==
    Let(extractBlock(text, ExamHeading),
        LAMBDA examBlock :
            IF examBlock = None \/ examBlock[1] = <<>> THEN None
            ELSE Some(Findings(TrimAll(Split(examBlock[1], {"\n", ";", "."})))))

DiagnosisHeading == LitI("diagnosis") \o Ws0 \o <<CharSet({":", "-"})>>
DifferentialsHeading == Heading(<<LitI("differentials"), LitI("ddx")>>)

extractDiagnosis(text) ==
    Let([ primary |-> extractAfter(text, DiagnosisHeading),
          diffs |-> extractListAfter(text, DifferentialsHeading) ],
        LAMBDA d : IF d.primary # None \/ Len(d.diffs) > 0
                   THEN Some([primary |-> d.primary, differentials |-> OrNoList(d.diffs)])
                   ELSE None)

InstructionsHeading == Heading(<<LitI("instructions"), WordsI(<<"patient", "education">>)>>)
PrecautionsHeading == Heading(<<LitI("precautions"), LitI("warnings")>>)

extractInstructions(text) ==
    Let([ general |-> extractListAfter(text, InstructionsHeading),
          precautions |-> extractListAfter(text, PrecautionsHeading) ],
        LAMBDA i : IF Len(i.general) > 0 \/ Len(i.precautions) > 0 THEN Some(i) ELSE None)

NotesHeading == LitI("notes") \o Ws0 \o <<CharSet({":", "-"})>>
extractNotes(text) == OptStr(OrUndefined(extractBlock(text, NotesHeading)))

OverviewHeading == Heading(<<LitI("overview"), LitI("summary")>>)
extractOverview(text) == extractAfter(text, OverviewHeading)

KeyFindingsHeading == Heading(<<WordsI(<<"key", "findings">>)>>)
extractKeyFindings(text) == extractListAfter(text, KeyFindingsHeading)

DecisionsHeading == Heading(<<LitI("decisions"), LitI("plan")>>)
extractDecisions(text) == extractListAfter(text, DecisionsHeading)

\* /(follow\s*up|follow-up\s*recommendations)\s*[:\-]/i
FollowUpHeading ==
    Heading(<<WordsI(<<"follow", "up">>), LitI("follow-up") \o Ws0 \o LitI("recommendations")>>)
extractFollowUp(text) == extractAfter(text, FollowUpHeading)

SpecialInstructionsHeading == Heading(<<WordsI(<<"special", "instructions">>)>>)
extractSpecialInstructions(text) == extractAfter(text, SpecialInstructionsHeading)

(***************************************************************************)
(* PrescriptionParser.extractMedications                                   *)
(***************************************************************************)

\* [A-Z][a-zA-Z]+(?:\s+[A-Z][a-zA-Z]+)?(?:\s+[A-Z][a-zA-Z]+)? ; under the i
\* flag [A-Z] accepts a lower-case letter too.
MedWord(ci) == <<CharSet(IF ci THEN Letter ELSE Upper), Plus(<<CharSet(Letter)>>)>>
MedName(ci) == MedWord(ci) \o <<Opt(Ws1 \o MedWord(ci)), Opt(Ws1 \o MedWord(ci))>>

LitF(s, ci) == IF ci THEN LitI(s) ELSE Lit(s)

\* \d+(?:\.\d+)?
Number == Digits1 \o <<Opt(Lit(".") \o Digits1)>>
\* \d+(?:\.\d+)?\s*(?:mg|mcg|g|ml|IU|%|units)
Dose(ci) ==
    Number \o Ws0
    \o <<Alt(<< LitF("mg", ci), LitF("mcg", ci), LitF("g", ci), LitF("ml", ci),
               LitF("IU", ci), Lit("%"), LitF("units", ci) >>)>>

\* (?:\.|\n|$)
Terminator == Alt(<<Lit("."), Lit("\n"), <<EndOfInput>>>>)
\* (.+?)(?:for\s+([\w\s]+?))?(?:\.|\n|$) with the two groups numbered k, k+1.
RestAndDuration(k, ci) ==
    << Group(k, <<LazyPlus(<<Dot>>)>>),
       Opt(LitF("for", ci) \o Ws1 \o <<Group(k + 1, <<LazyPlus(<<CharSet(WordChar \cup Space)>>)>>)>>),
       Terminator >>

\* /(Take\s+)?(NAME)\s+(DOSE)\s*(.+?)(?:for\s+([\w\s]+?))?(?:\.|\n|$)/g
StandardPattern ==
    <<Opt(<<Group(1, Lit("Take") \o Ws1)>>), Group(2, MedName(FALSE))>> \o Ws1
    \o <<Group(3, Dose(FALSE))>> \o Ws0 \o RestAndDuration(4, FALSE)

\* /verb\s+(NAME)\s+(DOSE)?\s*(.+?)(?:for\s+([\w\s]+?))?(?:\.|\n|$)/gi
VerbPattern(verb) ==
    LitI(verb) \o Ws1 \o <<Group(1, MedName(TRUE))>> \o Ws1
    \o <<Opt(<<Group(2, Dose(TRUE))>>)>> \o Ws0 \o RestAndDuration(3, TRUE)

\* /(NAME)\s+(DOSE),?\s+(\d+(?:\.\d+)?)\s+(?:tablet|capsule|pill|dose)s?\s+(.+?)(?:for...)?(?:\.|\n|$)/gi
TabletWord == Alt(<<LitI("tablet"), LitI("capsule"), LitI("pill"), LitI("dose")>>)
TabletPattern ==
    <<Group(1, MedName(TRUE))>> \o Ws1 \o <<Group(2, Dose(TRUE)), Opt(Lit(","))>> \o Ws1
    \o <<Group(3, Number)>> \o Ws1 \o <<TabletWord, Opt(LitI("s"))>> \o Ws1
    \o RestAndDuration(4, TRUE)

\* /(NAME)\s+(?:nasal\s+spray|cream|ointment|solution|inhaler|drops),?\s+(.+?)(?:\.|\n|$)/gi
FormWord ==
    Alt(<< LitI("nasal") \o Ws1 \o LitI("spray"), LitI("cream"), LitI("ointment"),
           LitI("solution"), LitI("inhaler"), LitI("drops") >>)
FormPattern ==
    <<Group(1, MedName(TRUE))>> \o Ws1 \o <<FormWord, Opt(Lit(","))>> \o Ws1
    \o <<Group(2, <<LazyPlus(<<Dot>>)>>), Terminator>>

\* /(NAME)\s+as\s+needed\s+for\s+(.+?)(?:\.|\n|$)/gi
AsNeededFor == LitI("as") \o Ws1 \o LitI("needed") \o Ws1 \o LitI("for")
AsNeededPattern ==
    <<Group(1, MedName(TRUE))>> \o Ws1 \o AsNeededFor \o Ws1
    \o <<Group(2, <<LazyPlus(<<Dot>>)>>), Terminator>>

\* The regexes array, in source order, with each pattern's number of groups.
regexes ==
    << [re |-> StandardPattern, groups |-> 5],
       [re |-> VerbPattern("prescribe"), groups |-> 4],
       [re |-> VerbPattern("start"), groups |-> 4],
       [re |-> VerbPattern("continue"), groups |-> 4],
       [re |-> TabletPattern, groups |-> 5],
       [re |-> FormPattern, groups |-> 2],
       [re |-> AsNeededPattern, groups |-> 2] >>

\* m[k] where k may exceed the pattern's groups (then undefined).
MedCap(text, m, k) == IF k > Len(m.caps) THEN None ELSE Cap(text, m, k)

\* /for\s+([\w\s]+?)(?:\.|\n|$)/i , applied to m[0] by the formulation branch.
ForDurationPattern ==
    LitI("for") \o Ws1 \o <<Group(1, <<LazyPlus(<<CharSet(WordChar \cup Space)>>)>>), Terminator>>

\* The branch dispatch on the matched text m[0]: [name, dose, rest, duration].
\* `${x}` of a template literal: an undefined x reads "undefined".
Interpolated(o) == IF o = None THEN Chars("undefined") ELSE o[1]

\* The branches taken when m[0] holds no tablet word.
OtherFields(text, m, m0, form) ==
    IF form.ok
    THEN [ name |-> OptTrim(MedCap(text, m, 1)),
           dose |-> Some(Whole(m0, form)),
           rest |-> OrEmpty(OptTrim(MedCap(text, m, 2))),
           duration |-> OptCap(m0, Search(m0, ForDurationPattern, 1), 1) ]
    ELSE IF Test(m0, AsNeededFor)
    THEN [ name |-> OptTrim(MedCap(text, m, 1)),
           dose |-> None,
           rest |-> Chars("as needed for ") \o OrEmpty(OptTrim(MedCap(text, m, 2))),
           duration |-> None ]
    ELSE [ name |-> OptTrim(MedCap(text, m, 1)),
           dose |-> OptTrim(MedCap(text, m, 2)),
           rest |-> OrEmpty(OptTrim(MedCap(text, m, 3))),
           duration |-> OptTrim(MedCap(text, m, 4)) ]

TabletFields(text, m, m0, tablet) ==
    IF tablet.ok
    THEN [ name |-> OptTrim(MedCap(text, m, 1)),
           dose |-> OptTrim(MedCap(text, m, 2)),
           rest |-> Interpolated(OptTrim(MedCap(text, m, 3)))
                    \o <<" ">> \o Whole(m0, tablet) \o <<" ">>
                    \o OrEmpty(OrUndefined(OptTrim(MedCap(text, m, 4)))),
           duration |-> OptTrim(MedCap(text, m, 5)) ]
    ELSE OtherFields(text, m, m0, Search(m0, <<FormWord>>, 0))

MatchFields(text, m) ==
    Let(Whole(text, m), LAMBDA m0 : TabletFields(text, m, m0, Search(m0, <<TabletWord>>, 0)))

\* /(once|twice|thrice|every\s+\d+\s*(?:hours|hour|days|day)|daily|bid|tid|qid|q\d+h
\*   |with\s+meals|at\s+bedtime|in\s+the\s+morning|in\s+the\s+evening|as\s+needed|prn)/i
RECURSIVE WordsSp(_)
WordsSp(ws) ==
    IF Len(ws) = 1 THEN LitI(ws[1])
    ELSE LitI(ws[1]) \o Ws1 \o WordsSp(Tail(ws))

FrequencyPattern ==
    <<Group(1, <<Alt(<<
        LitI("once"), LitI("twice"), LitI("thrice"),
        LitI("every") \o Ws1 \o Digits1 \o Ws0
            \o <<Alt(<<LitI("hours"), LitI("hour"), LitI("days"), LitI("day")>>)>>,
        LitI("daily"), LitI("bid"), LitI("tid"), LitI("qid"),
        LitI("q") \o Digits1 \o LitI("h"),
        WordsSp(<<"with", "meals">>), WordsSp(<<"at", "bedtime">>),
        WordsSp(<<"in", "the", "morning">>), WordsSp(<<"in", "the", "evening">>),
        WordsSp(<<"as", "needed">>), LitI("prn") >>)>>)>>

\* /\b(PO|oral|by\s+mouth|IM|intramuscular|IV|intravenous|SC|subcutaneous|topical
\*   |inhaled|sublingual|nasal|ophthalmic|otic)\b/i
RoutePattern ==
    <<WordBoundary, Group(1, <<Alt(<<
        LitI("PO"), LitI("oral"), WordsSp(<<"by", "mouth">>), LitI("IM"),
        LitI("intramuscular"), LitI("IV"), LitI("intravenous"), LitI("SC"),
        LitI("subcutaneous"), LitI("topical"), LitI("inhaled"), LitI("sublingual"),
        LitI("nasal"), LitI("ophthalmic"), LitI("otic") >>)>>), WordBoundary>>

\* The if / else-if chain that standardises the route; a matched text that no
\* test accepts is returned as it is.
RouteTests ==
    << <<Alt(<<LitI("oral"), WordsSp(<<"by", "mouth">>)>>)>>, LitI("intramuscular"),
       LitI("intravenous"), LitI("subcutaneous"), LitI("topical"), LitI("inhaled"),
       LitI("sublingual"), LitI("nasal"), LitI("ophthalmic"), LitI("otic") >>
RouteCodes ==
    <<"PO", "IM", "IV", "SC", "Topical", "Inhaled", "SL", "Nasal", "Ophthalmic", "Otic">>

\* The chain that standardises the frequency.
FrequencyTests ==
    << <<Alt(<<WordsSp(<<"once", "daily">>), LitI("daily")>>)>>,
       <<Alt(<<WordsSp(<<"twice", "daily">>), LitI("bid")>>)>>,
       <<Alt(<<WordsSp(<<"three", "times", "daily">>), WordsSp(<<"thrice", "daily">>),
               LitI("tid")>>)>>,
       <<Alt(<<WordsSp(<<"four", "times", "daily">>), LitI("qid")>>)>>,
       <<Alt(<<WordsSp(<<"as", "needed">>), LitI("prn")>>)>> >>
FrequencyNames ==
    <<"Once daily", "Twice daily", "Three times daily", "Four times daily", "As needed (PRN)">>

\* The first test of the chain that the raw text passes decides; else the raw text.
Standardize(raw, tests, names) ==
    Let({j \in 1..Len(tests) : Test(raw, tests[j])},
        LAMBDA hits : IF hits = {} THEN Str(raw)
                      ELSE names[CHOOSE j \in hits : \A k \in hits : j <= k])

normalizeRoute(raw) == Standardize(raw, RouteTests, RouteCodes)
normalizeFrequency(raw) == Standardize(raw, FrequencyTests, FrequencyNames)

\* The instructions left of `rest` once the frequency and route texts are
\* removed and the punctuation cleaned up.
cleanInstructions(rest, freqMatch, routeMatch) ==
    LET noFreq == IF freqMatch.ok THEN RemoveFirst(rest, Whole(rest, freqMatch)) ELSE rest
        noRoute == IF routeMatch.ok THEN RemoveFirst(noFreq, Whole(rest, routeMatch)) ELSE noFreq
    IN  StripCommas(Trim(CollapseSpaces(noRoute)))

\* The push without its guard.
anyName(name) == TRUE
\* if (name) : the name capture is neither undefined nor empty.
hasName(name) == name # None /\ name[1] # <<>>

\* The body of the while loop for one match m: the list of entries it pushes
\* (one, or none when the name is undefined or empty).
entryOf(f, freqMatch, routeMatch) ==
    IF hasName(f.name)
    THEN << [ name |-> Str(OrEmpty(f.name)),
              dose |-> OptStr(f.dose),
              frequency |-> IF freqMatch.ok
                            THEN Some(normalizeFrequency(Whole(f.rest, freqMatch)))
                            ELSE None,
              route |-> IF routeMatch.ok
                        THEN Some(normalizeRoute(Whole(f.rest, routeMatch)))
                        ELSE None,
              duration |-> OptStr(f.duration),
              instructions |->
                  OptStr(OrUndefined(Some(cleanInstructions(f.rest, freqMatch, routeMatch)))),
              warnings |-> None ] >>
    ELSE <<>>

medicationOf(text, m) ==
    Let(MatchFields(text, m),
        LAMBDA f : entryOf(f, Search(f.rest, FrequencyPattern, 1),
                           Search(f.rest, RoutePattern, 1)))

\* while ((m = re.exec(text)) !== null) { ... } for one pattern, from
\* lastIndex: the entries pushed, and whether the loop fails to end. exec sets
\* lastIndex to the end of the match, so the loop spins on an empty match.
RECURSIVE execLoop(_, _, _)
NoMore == [meds |-> <<>>, hangs |-> FALSE, matches |-> 0]
Spins == [meds |-> <<>>, hangs |-> TRUE, matches |-> 0]
Pushed(entry, later) ==
    [meds |-> entry \o later.meds, hangs |-> later.hangs, matches |-> 1 + later.matches]
Joined(this, others) ==
    [ meds |-> this.meds \o others.meds, hangs |-> others.hangs,
      matches |-> this.matches + others.matches ]

execLoop(text, pat, lastIndex) ==
    Let(Exec(text, pat.re, pat.groups, lastIndex),
        LAMBDA m : IF ~m.ok THEN NoMore
                   ELSE Pushed(medicationOf(text, m),
                               IF m.end = m.index THEN Spins
                               ELSE execLoop(text, pat, m.end)))

\* for (const re of regexes): each pattern is a literal evaluated in the call,
\* so its lastIndex starts at the first character.
RECURSIVE patternLoop(_, _)
patternLoop(text, j) ==
    IF j > Len(regexes) THEN NoMore
    ELSE Let(execLoop(text, regexes[j], 1),
             LAMBDA this : IF this.hangs THEN this
                           ELSE Joined(this, patternLoop(text, j + 1)))

\* /avoid|do\s+not|warning|caution|alert|contraindication/i
WarningPattern ==
    <<Alt(<< LitI("avoid"), WordsSp(<<"do", "not">>), LitI("warning"), LitI("caution"),
             LitI("alert"), LitI("contraindication") >>)>>

\* text.split(/\n/).filter(l => /.../i.test(l)).map(w => w.trim())
RECURSIVE keepWarnings(_)
keepWarnings(lines) ==
    IF Len(lines) = 0 THEN <<>>
    ELSE (IF Test(Head(lines), WarningPattern) THEN <<Str(Trim(Head(lines)))>> ELSE <<>>)
         \o keepWarnings(Tail(lines))
warningLines(text) == keepWarnings(Split(text, {"\n"}))

\* /(?:take\s+all\s+medications|all\s+medications\s+should\s+be\s+taken)\s+(.+?)(?:\.|\n|$)/i
GlobalInstructionPattern ==
    <<Alt(<< WordsSp(<<"take", "all", "medications">>),
             WordsSp(<<"all", "medications", "should", "be", "taken">>) >>)>>
    \o Ws1 \o <<Group(1, <<LazyPlus(<<Dot>>)>>), Terminator>>

\* specialInstructions[1].trim() of the global-instruction match, None without a match.
globalInstruction(text) ==
    OptStr(OptTrim(OptCap(text, Search(text, GlobalInstructionPattern, 1), 1)))

(***************************************************************************)
(* Transcripts                                                             *)
(***************************************************************************)

\* A TranscriptUtterance as far as the parser reads it: the speaker label and
\* the text, None when the text field is missing at run time.
Utterance(speaker, text) == [speaker |-> speaker, text |-> text]

\* The utterances a transcript is drawn from, in the order they are spoken.
Phrases ==
    << Utterance("Doctor", Some("Patient John Smith, 45 year old male. Diagnosis: Hypertension. Prescribe Lisinopril 10 mg once daily. Follow up in 2 weeks.")),
       Utterance("Doctor", Some("Amoxicillin 500 mg twice daily for 7 days")),
       Utterance("Doctor", Some("Take Amoxicillin 500 mg twice daily for 7 days")),
       Utterance("Doctor", Some(" Prescribe Morphine 5 mg iv every 6 hours. Start Metformin 500 mg oral bid.")),
       Utterance("Doctor", Some("avoid grapefruit juice ")),
       Utterance("Patient", Some("")),
       Utterance("Patient", None),
       Utterance("Patient", Some("Thank you, see you soon")) >>

MaxUtterances == 2
MaxCalls == 3

\* The transcripts: the selections of at most MaxUtterances phrases, in order.
Selections ==
    UNION {{ s \in [1..n -> 1..Len(Phrases)] : \A i \in 1..n - 1 : s[i] < s[i + 1] }
           : n \in 0..MaxUtterances}
Transcripts == {[i \in 1..Len(s) |-> Phrases[s[i]]] : s \in Selections}
\* The transcripts of the other call sites: one utterance each.
OtherTranscripts == {<<Phrases[i]>> : i \in 1..Len(Phrases)}
ProviderNames == {None, Some("Dr Lee")}

\* One consultation, utterance by utterance, as the recorder hands it over.
Consultation ==
    << Utterance("Doctor", Some("Mr. Brown brings his daughter")),
       Utterance("Patient", Some("Name: Alice Green")),
       Utterance("Unknown", Some("   ")),
       Utterance("Patient", Some("Allergies: penicillin")),
       Utterance("Patient", Some("Reports mild nausea")),
       Utterance("Doctor", Some("Notes: sleeps poorly")),
       Utterance("Patient", Some("eats well")),
       Utterance("Doctor", Some("BP 120/80, pulse 72 bpm, temp 98.6 F")),
       Utterance("Doctor", Some("Temperature 37C, 16 breaths/min, sats 98%RA")),
       Utterance("Doctor", Some("Start Vitamin C 500 mg daily")),
       Utterance("Doctor", Some("Ibuprofen 200 mg, 1 tablet as needed for pain")),
       Utterance("Doctor", Some("Take all medications with food")),
       Utterance("Doctor", Some("Start Metformin 500 mg bid")) >>

MaxExcerpt == 3

\* The excerpts of the consultation: at most MaxExcerpt utterances in a row.
Excerpt(first, n) == SubSeq(Consultation, first, first + n - 1)
Excerpts ==
    UNION {{Excerpt(first, n) : first \in 1..Len(Consultation) - n + 1} : n \in 0..MaxExcerpt}

(***************************************************************************)
(* PrescriptionParser.parse                                                *)
(***************************************************************************)

\* u.text without the default.
noDefault(t) == t
\* u.text ?? ""
defaultText(t) == IF t = None THEN Some("") ELSE t

\* (...).trim() throws a TypeError when it is applied to undefined.
trimThrows(utterances) ==
    \E i \in 1..Len(utterances) : defaultText(utterances[i].text) = None

\* utterances.map(u => (u.text ?? "").trim()).filter(Boolean).join(" \n")
RECURSIVE joinLines(_)
joinLines(parts) ==
    IF Len(parts) = 0 THEN <<>>
    ELSE IF Len(parts) = 1 THEN parts[1]
    ELSE parts[1] \o <<" ", "\n">> \o joinLines(Tail(parts))

\* The text with the speaker label put in front of every utterance.
labelledText(utterances) ==
    joinLines(TrimAll([i \in 1..Len(utterances) |->
                          Chars(utterances[i].speaker) \o Chars(": ")
                          \o Chars(defaultText(utterances[i].text)[1])]))
normalizedText(utterances) ==
    joinLines(TrimAll([i \in 1..Len(utterances) |->
                          Chars(defaultText(utterances[i].text)[1])]))

\* Which of the extractors' patterns occur in the text.
matchedOf(text) ==
    [ name |-> \E j \in 1..Len(NamePatterns) : Test(text, NamePatterns[j]),
      age |-> Test(text, AgePattern),
      gender |-> Test(text, MalePattern) \/ Test(text, FemalePattern),
      phone |-> Test(text, PhonePattern),
      email |-> Test(text, EmailPattern),
      address |-> Test(text, AddressPattern),
      history |-> \/ Test(text, HistoryHeading)
                  \/ Test(text, AllergiesHeading)
                  \/ Test(text, CurrentMedsHeading),
      currentConditions |-> Test(text, ConditionsHeading),
      vitals |-> \/ Test(text, BpPattern) \/ Test(text, HrPattern) \/ Test(text, RrPattern)
                 \/ Test(text, TempPattern) \/ Test(text, Spo2Pattern),
      examination |-> Test(text, ExamHeading),
      diagnosis |-> Test(text, DiagnosisHeading) \/ Test(text, DifferentialsHeading),
      instructions |-> Test(text, InstructionsHeading) \/ Test(text, PrecautionsHeading),
      notes |-> Test(text, NotesHeading),
      overview |-> Test(text, OverviewHeading),
      keyFindings |-> Test(text, KeyFindingsHeading),
      decisions |-> Test(text, DecisionsHeading),
      followUp |-> Test(text, FollowUpHeading),
      specialInstructions |-> Test(text, SpecialInstructionsHeading) ]

\* Everything parse and extractMedications read off the text alone.
scanText(text) ==
    [ text |-> text,
      patient |-> [ name |-> extractName(text),
                    age |-> extractAge(text),
                    gender |-> extractGender(text),
                    contact |-> extractContact(text) ],
      history |-> extractHistory(text),
      currentConditions |-> extractCurrentConditions(text),
      vitals |-> extractVitals(text),
      examination |-> extractExamination(text),
      diagnosis |-> extractDiagnosis(text),
      found |-> patternLoop(text, 1),
      warningLines |-> warningLines(text),
      specialInstructions |-> globalInstruction(text),
      instructions |-> extractInstructions(text),
      notesVal |-> extractNotes(text),
      summary |-> [ overview |-> extractOverview(text),
                    keyFindings |-> extractKeyFindings(text),
                    decisions |-> extractDecisions(text),
                    followUp |-> extractFollowUp(text),
                    specialInstructions |-> extractSpecialInstructions(text) ],
      matched |-> matchedOf(text) ]

\* The scans of the texts of all transcripts, each text scanned once.
Scanned ==
    {scanText(text) : text \in {normalizedText(u) :
                                   u \in {v \in Transcripts \cup OtherTranscripts \cup Excerpts :
                                             ~trimThrows(v)}}}
scan(text) == CHOOSE s \in Scanned : s.text = text

\* A list that lives on between calls.
keptMeds(left) == left
\* const meds: Medication[] = [] : the list starts empty whatever an earlier
\* call left behind.
newMeds(left) == <<>>

\* The warnings given to the first medication only.
warnFirstOnly(meds, warnings) ==
    [i \in 1..Len(meds) |->
        IF i = 1 /\ Len(warnings) > 0 THEN [meds[i] EXCEPT !.warnings = Some(warnings)]
        ELSE meds[i]]
\* meds.forEach(med => med.warnings = med.warnings ? med.warnings.concat(warnings) : warnings)
addWarnings(meds, warnings) ==
    IF Len(warnings) = 0 THEN meds
    ELSE [i \in 1..Len(meds) |->
             [meds[i] EXCEPT !.warnings = IF @ # None THEN Some(@[1] \o warnings)
                                          ELSE Some(warnings)]]

\* The global instruction written over the instructions of every medication.
overwriteInstructions(meds, instruction) ==
    IF instruction = None \/ Len(meds) = 0 THEN meds
    ELSE [i \in 1..Len(meds) |-> [meds[i] EXCEPT !.instructions = instruction]]
\* if (specialInstructions && meds.length > 0) ... if (!med.instructions) ...
addGlobalInstruction(meds, instruction) ==
    IF instruction = None \/ Len(meds) = 0 THEN meds
    ELSE [i \in 1..Len(meds) |->
             [meds[i] EXCEPT !.instructions = IF @ = None \/ @ = Some("") THEN instruction
                                              ELSE @]]

extractMedications(text, left) ==
    Let(scan(text),
        LAMBDA s : addGlobalInstruction(addWarnings(newMeds(left) \o s.found.meds,
                                                    s.warningLines),
                                        s.specialInstructions))

\* The prescriber suffix without the test of providerName.
notesAlways(notesVal, providerName) ==
    Some((IF notesVal # None /\ notesVal # Some("") THEN notesVal[1] \o " " ELSE "")
         \o "Prescriber: " \o (IF providerName = None THEN "undefined" ELSE providerName[1]))
\* notes: providerName ? `${notesVal ? notesVal + ' ' : ''}Prescriber: ${providerName}` : notesVal
notesOf(notesVal, providerName) ==
    IF providerName # None /\ providerName # Some("")
    THEN Some((IF notesVal # None /\ notesVal # Some("") THEN notesVal[1] \o " " ELSE "")
              \o "Prescriber: " \o providerName[1])
    ELSE notesVal

\* The outcome of a call: the document returned, or the call throws, or the
\* call never returns.
Returned(document) == [status |-> "returned", doc |-> Some(document)]
Threw == [status |-> "threw", doc |-> None]
Hangs == [status |-> "hangs", doc |-> None]
NoCall == [status |-> "none", doc |-> None]

\* parse(utterances, providerName) at time now, with the medication list an
\* earlier call built in `left`.
\* updatedAt: new Date().toISOString() : the clock read a second time.
readAgain(now) == now + 1
\* updatedAt: now : the reading of the clock taken at the start of the call.
updatedAtOf(now) == now

documentOf(s, providerName, now, left) ==
    IF s.found.hangs THEN Hangs
    ELSE Returned([ patient |-> s.patient,
                    history |-> s.history,
                    currentConditions |-> s.currentConditions,
                    vitals |-> s.vitals,
                    examination |-> s.examination,
                    diagnosis |-> s.diagnosis,
                    medications |-> extractMedications(s.text, left),
                    instructions |-> s.instructions,
                    notes |-> notesOf(s.notesVal, providerName),
                    summary |-> Some(s.summary),
                    createdAt |-> now,
                    updatedAt |-> updatedAtOf(now),
                    version |-> 1 ])

parse(utterances, providerName, now, left) ==
    IF trimThrows(utterances) THEN Threw
    ELSE documentOf(scan(normalizedText(utterances)), providerName, now, left)

(***************************************************************************)
(* The parser as its callers use it                                        *)
(***************************************************************************)

VARIABLES transcript, provider, clock, result, firstResult, lastMeds, otherCalled
VARIABLES doc, versions, auditTrail, isEditing, prescription, toast, toastTimers, lastCall
VARIABLES editor, audioRecorder, transcriber, recorder, meter, transcriptionEditor
VARIABLES extraction

appVars == <<doc, versions, auditTrail, isEditing, prescription, toast, toastTimers, lastCall>>
parserVars == <<transcript, provider, clock, result, firstResult, lastMeds, otherCalled>>
uiVars == <<editor, audioRecorder, transcriber, recorder, meter, transcriptionEditor>>
vars == <<parserVars, appVars, uiVars, extraction>>

\* transcript, provider : the arguments of the calls under observation
\* clock                : the reading of new Date(), here the number of calls
\*                        made so far
\* result, firstResult  : the outcome of the latest and of the first call
\*                        with these arguments
\* lastMeds             : the medication list the latest call built
\* otherCalled          : another call site has called parse since the first
\*                        call with these arguments
\* doc, versions, auditTrail, isEditing, prescription, toast : the state of
\*                        App (useState, App.tsx 18-24)
\* toastTimers          : the timers showToast has set that have not fired
\* lastCall             : the operation performed last, with its argument
\* editor               : the PrescriptionEditor on screen (its props, its
\*                        draft, what the user sees and means)
\* audioRecorder        : the AudioRecorder component on screen (its props,
\*                        its state, the control clicked last and the
\*                        callbacks that click invoked)
\* transcriber          : a WebSpeechTranscriber and the SpeechRecognition
\*                        engine it wraps
\* recorder             : the useAudioRecorder hook, the MediaRecorders and
\*                        streams it has created, and its calls in flight
\* meter                : an AudioMeter, its animation frame and its timers
\* transcriptionEditor  : the TranscriptionEditor on screen, its debounce
\*                        timer and its onAnalyze calls

\* The state of App when it is mounted.
NoCallYet == [op |-> "none", arg |-> 0]
AppMounted ==
    /\ doc = None
    /\ versions = <<>>
    /\ auditTrail = <<>>
    /\ isEditing = FALSE
    /\ prescription = None
    /\ toast = None
    /\ toastTimers = 0
    /\ lastCall = NoCallYet

\* No component other than App is on screen.
NotMounted == [mounted |-> FALSE]
\* extractMedications is not being stepped through.
NotExtracting == [running |-> FALSE]
UiNotMounted ==
    /\ editor = NotMounted
    /\ audioRecorder = NotMounted
    /\ transcriber = NotMounted
    /\ recorder = NotMounted
    /\ meter = NotMounted
    /\ transcriptionEditor = NotMounted
    /\ extraction = NotExtracting

Init ==
    /\ transcript \in Transcripts
    /\ provider \in ProviderNames
    /\ clock = 0
    /\ result = NoCall
    /\ firstResult = NoCall
    /\ lastMeds = <<>>
    /\ otherCalled = FALSE
    /\ AppMounted
    /\ UiNotMounted

medsAfter(r, left) == IF r.status = "returned" THEN r.doc[1].medications ELSE left

\* PrescriptionParser.parse(transcript, provider)
Parse ==
    /\ UNCHANGED <<uiVars, extraction>>
    /\ clock < MaxCalls
    /\ \E r \in {parse(transcript, provider, clock + 1, lastMeds)} :
           /\ result' = r
           /\ firstResult' = IF firstResult = NoCall THEN r ELSE firstResult
           /\ lastMeds' = medsAfter(r, lastMeds)
    /\ clock' = clock + 1
    /\ lastCall' = [op |-> "parse", arg |-> 0]
    /\ UNCHANGED <<transcript, provider, otherCalled>>
    /\ UNCHANGED <<doc, versions, auditTrail, isEditing, prescription, toast, toastTimers>>

\* A call of parse from another call site, on another transcript.
ParseOther(other) ==
    /\ UNCHANGED <<uiVars, extraction>>
    /\ clock < MaxCalls
    /\ lastMeds' = medsAfter(parse(other, None, clock + 1, lastMeds), lastMeds)
    /\ clock' = clock + 1
    /\ otherCalled' = (otherCalled \/ firstResult # NoCall)
    /\ lastCall' = [op |-> "parse", arg |-> 0]
    /\ UNCHANGED <<transcript, provider, result, firstResult>>
    /\ UNCHANGED <<doc, versions, auditTrail, isEditing, prescription, toast, toastTimers>>

Next ==
    \/ Parse
    \/ \E other \in OtherTranscripts : ParseOther(other)

Spec == Init /\ [][Next]_vars

\* The same calls on the excerpts of the consultation.
ConsultationInit ==
    /\ transcript \in Excerpts
    /\ provider \in ProviderNames
    /\ clock = 0
    /\ result = NoCall
    /\ firstResult = NoCall
    /\ lastMeds = <<>>
    /\ otherCalled = FALSE
    /\ AppMounted
    /\ UiNotMounted

ConsultationSpec == ConsultationInit /\ [][Next]_vars

(***************************************************************************)
(* App: the document on screen, its version history and its audit trail    *)
(***************************************************************************)

\* The most versions the history is let grow to.
MaxVersions == 3

\* A number in decimal digits, as a template literal prints it.
RECURSIVE Decimal(_)
Decimal(n) ==
    IF n < 10 THEN Str(<<Chars("0123456789")[n + 1]>>)
    ELSE Decimal(n \div 10) \o Str(<<Chars("0123456789")[(n % 10) + 1]>>)

\* Array.prototype.join on strings.
RECURSIVE JoinWith(_, _)
JoinWith(list, sep) ==
    IF Len(list) = 0 THEN ""
    ELSE IF Len(list) = 1 THEN list[1]
    ELSE list[1] \o sep \o JoinWith(Tail(list), sep)

\* v || fallback on an optional string.
OrElseText(v, fallback) == IF v = None \/ v = Some("") THEN fallback ELSE v[1]

\* toLegacyPrescription(d), on the day `today`.
legacyRemarks(m) ==
    IF m.warnings # None /\ Len(m.warnings[1]) > 0
    THEN Some("Warnings: " \o JoinWith(m.warnings[1], "; ")) ELSE None
toLegacyPrescription(d, today) ==
    [ patientName |-> OrElseText(d.patient.name, "Unknown"),
      age |-> IF d.patient.age # None THEN Decimal(d.patient.age[1]) \o " years"
              ELSE "Not specified",
      diagnosis |-> IF d.diagnosis = None THEN "Medical Consultation"
                    ELSE OrElseText(d.diagnosis[1].primary, "Medical Consultation"),
      medications |-> [i \in 1..Len(d.medications) |->
                          [ name |-> d.medications[i].name,
                            dosage |-> d.medications[i].dose,
                            frequency |-> d.medications[i].frequency,
                            duration |-> d.medications[i].duration,
                            instructions |-> d.medications[i].instructions,
                            remarks |-> legacyRemarks(d.medications[i]) ]],
      remarks |-> OrElseText(d.notes,
                             IF d.instructions = None THEN ""
                             ELSE JoinWith(d.instructions[1].general, "; ")),
      date |-> today,
      doctor |-> "Dr. Sarah Wilson, MD",
      license |-> "MED123456" ]

\* versions[versions.length - 1]?.version || fallback
lastVersionOr(history, fallback) ==
    IF Len(history) > 0 /\ history[Len(history)].version # 0
    THEN history[Len(history)].version ELSE fallback

\* The first entry with the version number, or the latest entry when there
\* is none.
findVersionOrLatest(history, versionNumber) ==
    LET at == {i \in 1..Len(history) : history[i].version = versionNumber}
    IN  IF Len(history) = 0 THEN None
        ELSE IF at = {} THEN Some(history[Len(history)])
        ELSE Some(history[CHOOSE i \in at : \A j \in at : i <= j])
\* versions.find((v) => v.version === versionNumber): the first such entry.
findVersion(history, versionNumber) ==
    LET at == {i \in 1..Len(history) : history[i].version = versionNumber}
    IN  IF at = {} THEN None
        ELSE Some(history[CHOOSE i \in at : \A j \in at : i <= j])

\* The version number a revert restores: that of its target.
targetVersion(history, target) == target.version
\* (versions[versions.length - 1]?.version || target.version) + 1
revertedVersion(history, target) == lastVersionOr(history, target.version) + 1

\* One entry of the audit trail; `at` is the reading of Date.now() in its id.
NoChange == [fieldPath |-> None, previousValue |-> None, newValue |-> None, notes |-> None]
AuditEntry(ts, at, changeType, change) ==
    [ id |-> "audit_" \o Decimal(at),
      timestamp |-> ts,
      actor |-> "Provider",
      changeType |-> changeType,
      fieldPath |-> change.fieldPath,
      previousValue |-> change.previousValue,
      newValue |-> change.newValue,
      notes |-> change.notes ]

\* The documents the editor hands to onSave: its draft is the document it was
\* opened on, with or without a change of the patient name.
EditedNames == {"Bob Stone"}
Drafts(d) == {d} \cup {[d EXCEPT !.patient.name = Some(name)] : name \in EditedNames}
\* onSave(draft, { notes: 'Manual edit in editor' })
Changes == {Some([NoChange EXCEPT !.notes = Some("Manual edit in editor")])}

\* showToast(message): the toast is shown and a timer is set to hide it.
showToast(message) ==
    /\ toast' = Some(message)
    /\ toastTimers' = toastTimers + 1

\* The timer of a toast fires: setToast({ show: false, message: "" }).
ToastExpires ==
    /\ UNCHANGED <<uiVars, extraction>>
    /\ toastTimers > 0
    /\ toast' = None
    /\ toastTimers' = toastTimers - 1
    /\ lastCall' = [op |-> "timer", arg |-> 0]
    /\ UNCHANGED <<transcript, provider, clock, result, firstResult, lastMeds, otherCalled>>
    /\ UNCHANGED <<doc, versions, auditTrail, isEditing, prescription>>

\* The parsed document becomes the document of App, and the audit trail
\* records its creation.
Create ==
    /\ UNCHANGED <<uiVars, extraction>>
    /\ result.status = "returned"
    /\ doc = None
    /\ doc' = result.doc
    /\ auditTrail' = Append(auditTrail, AuditEntry(clock + 1, clock + 1, "create", NoChange))
    /\ clock' = clock + 1
    /\ lastCall' = [op |-> "create", arg |-> 0]
    /\ UNCHANGED <<transcript, provider, result, firstResult, lastMeds, otherCalled>>
    /\ UNCHANGED <<versions, isEditing, prescription, toast, toastTimers>>

\* onEdit={() => setIsEditing(true)} and onCancel={() => setIsEditing(false)}
Edit ==
    /\ UNCHANGED <<uiVars, extraction>>
    /\ isEditing' = TRUE
    /\ lastCall' = [op |-> "edit", arg |-> 0]
    /\ UNCHANGED <<transcript, provider, clock, result, firstResult, lastMeds, otherCalled>>
    /\ UNCHANGED <<doc, versions, auditTrail, prescription, toast, toastTimers>>
Cancel ==
    /\ UNCHANGED <<uiVars, extraction>>
    /\ isEditing /\ doc # None
    /\ isEditing' = FALSE
    /\ lastCall' = [op |-> "cancel", arg |-> 0]
    /\ UNCHANGED <<transcript, provider, clock, result, firstResult, lastMeds, otherCalled>>
    /\ UNCHANGED <<doc, versions, auditTrail, prescription, toast, toastTimers>>

\* handleSaveEditedDocument(updated, change), called by the editor, which is
\* on screen while isEditing && doc. ts is the reading of new Date(), `at`
\* that of the later Date.now().
Save(updated, change, at) ==
    /\ UNCHANGED <<uiVars, extraction>>
    /\ isEditing /\ doc # None
    /\ Len(versions) < MaxVersions
    /\ LET ts == clock + 1
           nextVersion == lastVersionOr(versions, 1) + 1
           updatedDoc == [updated EXCEPT !.updatedAt = ts, !.version = nextVersion]
       IN  /\ at \in {ts, ts + 1}
           /\ doc' = Some(updatedDoc)
           /\ versions' = Append(versions, [ version |-> nextVersion, timestamp |-> ts,
                                             document |-> updatedDoc ])
           /\ auditTrail' = Append(auditTrail,
                                   AuditEntry(ts, at, "update",
                                              IF change = None THEN NoChange ELSE change[1]))
           /\ prescription' = Some(toLegacyPrescription(updatedDoc, at))
    /\ isEditing' = FALSE
    /\ showToast("Prescription updated and version saved")
    /\ clock' = at
    /\ lastCall' = [op |-> "save", arg |-> 0]
    /\ UNCHANGED <<transcript, provider, result, firstResult, lastMeds, otherCalled>>

\* handleRevertVersion(versionNumber)
Revert(versionNumber, at) ==
    /\ UNCHANGED <<uiVars, extraction>>
    /\ lastCall' = [op |-> "revert", arg |-> versionNumber]
    /\ UNCHANGED <<transcript, provider, result, firstResult, lastMeds, otherCalled, isEditing>>
    /\ LET target == findVersion(versions, versionNumber)
           ts == clock + 1
       IN  IF target = None
           THEN /\ at = ts
                /\ UNCHANGED <<doc, versions, auditTrail, prescription, toast, toastTimers, clock>>
           ELSE LET nextVersion == revertedVersion(versions, target[1])
                    reverted == [target[1].document EXCEPT !.updatedAt = ts,
                                                           !.version = nextVersion]
                IN  /\ Len(versions) < MaxVersions
                    /\ at \in {ts, ts + 1}
                    /\ doc' = Some(reverted)
                    /\ versions' = Append(versions, [ version |-> nextVersion,
                                                      timestamp |-> ts,
                                                      document |-> reverted ])
                    /\ auditTrail' =
                           Append(auditTrail,
                                  AuditEntry(ts, at, "revert",
                                             [NoChange EXCEPT !.notes =
                                                 Some("Reverted to version "
                                                      \o Decimal(versionNumber))]))
                    /\ prescription' = Some(toLegacyPrescription(reverted, at))
                    /\ showToast("Reverted to version " \o Decimal(versionNumber))
                    /\ clock' = at

\* The consultations App is opened on.
AppTranscripts == {Excerpt(2, 1), Excerpt(11, 3)}
AppInit ==
    /\ transcript \in AppTranscripts
    /\ provider = None
    /\ clock = 0
    /\ result = NoCall
    /\ firstResult = NoCall
    /\ lastMeds = <<>>
    /\ otherCalled = FALSE
    /\ AppMounted
    /\ UiNotMounted

AppNext ==
    \/ Parse
    \/ Create
    \/ Edit
    \/ Cancel
    \/ \E updated \in (IF doc = None THEN {} ELSE Drafts(doc[1])), change \in Changes,
          at \in clock + 1..clock + 2 : Save(updated, change, at)
    \/ \E versionNumber \in 1..MaxVersions + 2, at \in clock + 1..clock + 2 :
          Revert(versionNumber, at)
    \/ ToastExpires

AppSpec == AppInit /\ [][AppNext]_vars

(***************************************************************************)
(* PrescriptionEditor: the patient name field under Privacy Mode           *)
(***************************************************************************)

MaxNameLen == 5

Stars(n) == [i \in 1..n |-> "*"]

\* mask(value) of PrescriptionEditor, with the privacyMode prop.  The empty
\* sequence stands for both '' and undefined: the code tests !value.
mask(privacyMode, value) ==
    IF ~privacyMode \/ Len(value) = 0 THEN value
    ELSE IF Len(value) <= 2 THEN Stars(Len(value))
    ELSE <<value[1]>> \o Stars(Len(value) - 2) \o <<value[Len(value)]>>

\* The value attribute of the Patient Name input.
shownName(e) == IF e.privacyMode THEN mask(e.privacyMode, e.draft) ELSE e.draft

\* The names of the documents the editor is opened on, and the keys pressed.
EditorNames == {"", "Al", "Bob", "Dana"}
Keys == {"a", "z"}

EditorOpened(name, privacyMode) ==
    [mounted |-> TRUE, privacyMode |-> privacyMode, draft |-> Chars(name),
     meant |-> Chars(name), saved |-> None]

\* The user presses a key with the cursor at the end of the field: the
\* change event carries the text of the field, which is what the field
\* showed, with the key appended; updateField stores it as the name.
TypeKey(c) ==
    /\ editor.mounted /\ editor.saved = None
    /\ Len(editor.draft) < MaxNameLen
    /\ editor' = [editor EXCEPT !.draft = shownName(editor) \o <<c>>,
                                !.meant = editor.meant \o <<c>>]
    /\ UNCHANGED <<parserVars, appVars, extraction, audioRecorder, transcriber, recorder, meter,
                 transcriptionEditor>>

\* The user deletes the last character of the field.
Backspace ==
    /\ editor.mounted /\ editor.saved = None
    /\ Len(editor.draft) > 0
    /\ editor' = [editor EXCEPT
                     !.draft = SubSeq(shownName(editor), 1, Len(editor.draft) - 1),
                     !.meant = SubSeq(editor.meant, 1, Len(editor.meant) - 1)]
    /\ UNCHANGED <<parserVars, appVars, extraction, audioRecorder, transcriber, recorder, meter,
                 transcriptionEditor>>

\* The Privacy Mode checkbox of App: the editor is rendered with the new prop.
TogglePrivacy ==
    /\ editor.mounted /\ editor.saved = None
    /\ editor' = [editor EXCEPT !.privacyMode = ~editor.privacyMode]
    /\ UNCHANGED <<parserVars, appVars, extraction, audioRecorder, transcriber, recorder, meter,
                 transcriptionEditor>>

\* Save Changes: onSave(draft, { notes: 'Manual edit in editor' }).
SaveChanges ==
    /\ editor.mounted /\ editor.saved = None
    /\ editor' = [editor EXCEPT !.saved = Some(editor.draft)]
    /\ UNCHANGED <<parserVars, appVars, extraction, audioRecorder, transcriber, recorder, meter,
                 transcriptionEditor>>

EditorInit ==
    /\ transcript = <<>>
    /\ provider = None
    /\ clock = 0
    /\ result = NoCall
    /\ firstResult = NoCall
    /\ lastMeds = <<>>
    /\ otherCalled = FALSE
    /\ AppMounted
    /\ editor \in {EditorOpened(name, privacyMode) :
                       name \in EditorNames, privacyMode \in BOOLEAN}
    /\ audioRecorder = NotMounted
    /\ transcriber = NotMounted
    /\ recorder = NotMounted
    /\ meter = NotMounted
    /\ transcriptionEditor = NotMounted
    /\ extraction = NotExtracting

EditorNext ==
    \/ \E c \in Keys : TypeKey(c)
    \/ Backspace
    \/ TogglePrivacy
    \/ SaveChanges

EditorSpec == EditorInit /\ [][EditorNext]_vars

(***************************************************************************)
(* AudioRecorder: the controls and the status line                         *)
(***************************************************************************)

\* The props the component is rendered with (those its controls and its
\* status depend on).
UploadProgresses == {0, 65, 100}
RecorderProps ==
    [isListening : BOOLEAN, isPaused : BOOLEAN, isUploading : BOOLEAN,
     isSilent : BOOLEAN, uploadProgress : UploadProgresses,
     isPermissionGranted : {None, Some(TRUE), Some(FALSE)}]

Controls == {"Start", "Stop", "Pause", "Continue", "Grant Permission"}

\* The controls in the rendered tree.
rendered(r) ==
    {c \in Controls :
        \/ c = "Grant Permission" /\ r.showPermissionPrompt
        \/ c = "Start" /\ ~r.props.isListening
        \/ c = "Stop" /\ r.props.isListening
        \/ c \in {"Pause", "Continue"}}

\* A control disabled only while there is no recording or an upload runs.
disabledUnlessRecording(props) == ~props.isListening \/ props.isUploading

\* The disabled attribute of Pause and of Continue.
pauseDisabled(props) == ~props.isListening \/ props.isPaused \/ props.isUploading
continueDisabled(props) == ~props.isListening \/ ~props.isPaused \/ props.isUploading

\* The disabled attribute of a control.
disabled(r, c) ==
    CASE c \in {"Start", "Stop"} -> r.props.isUploading
      [] c = "Pause" -> pauseDisabled(r.props)
      [] c = "Continue" -> continueDisabled(r.props)
      [] OTHER -> FALSE

enabled(r) == {c \in rendered(r) : ~disabled(r, c)}

\* The callbacks the onClick of a control invokes, in order.
onClick(c) ==
    CASE c \in {"Start", "Grant Permission"} -> <<"onStart">>
      [] c = "Stop" -> <<"onStop">>
      [] c = "Pause" -> <<"onPause">>
      [] c = "Continue" -> <<"onResume">>

\* The text of the status indicator and of the paragraph under the upload
\* progress bar.
statusText(props) ==
    IF props.isListening
    THEN IF props.isPaused THEN "Paused"
         ELSE IF props.isSilent THEN "Silence Detected" ELSE "Listening..."
    ELSE IF props.isUploading
         THEN "Uploading... " \o Decimal(props.uploadProgress) \o "%"
         ELSE "Click to Start Recording"

progressText(props) ==
    IF props.isUploading
    THEN Some("Uploading... " \o Decimal(props.uploadProgress) \o "%")
    ELSE None

displayed(r) == {statusText(r.props)} \cup Range(progressText(r.props))

\* The parent renders the component with props; the effect on
\* isPermissionGranted runs when that prop has changed (and at mount).
Render(props) ==
    /\ audioRecorder' =
           [mounted |-> TRUE,
            props |-> props,
            showPermissionPrompt |->
                IF audioRecorder.mounted
                THEN \/ audioRecorder.showPermissionPrompt
                     \/ /\ props.isPermissionGranted = Some(FALSE)
                        /\ audioRecorder.props.isPermissionGranted
                               # props.isPermissionGranted
                ELSE props.isPermissionGranted = Some(FALSE),
            clicked |-> None,
            called |-> <<>>]
    /\ UNCHANGED <<parserVars, appVars, extraction, editor, transcriber, recorder, meter,
                 transcriptionEditor>>

\* The user clicks a control that is on screen and not disabled.
Click(c) ==
    /\ audioRecorder.mounted
    /\ c \in enabled(audioRecorder)
    /\ audioRecorder' =
           [audioRecorder EXCEPT
               !.showPermissionPrompt =
                   IF c \in {"Start", "Grant Permission"} THEN FALSE ELSE @,
               !.clicked = Some(c),
               !.called = onClick(c)]
    /\ UNCHANGED <<parserVars, appVars, extraction, editor, transcriber, recorder, meter,
                 transcriptionEditor>>

AudioRecorderInit ==
    /\ transcript = <<>>
    /\ provider = None
    /\ clock = 0
    /\ result = NoCall
    /\ firstResult = NoCall
    /\ lastMeds = <<>>
    /\ otherCalled = FALSE
    /\ AppMounted
    /\ editor = NotMounted
    /\ audioRecorder = NotMounted
    /\ transcriber = NotMounted
    /\ recorder = NotMounted
    /\ meter = NotMounted
    /\ transcriptionEditor = NotMounted
    /\ extraction = NotExtracting

AudioRecorderNext ==
    \/ \E props \in RecorderProps : Render(props)
    \/ \E c \in Controls : Click(c)

AudioRecorderSpec == AudioRecorderInit /\ [][AudioRecorderNext]_vars

(***************************************************************************)
(* WebSpeechTranscriber and the SpeechRecognition engine                   *)
(***************************************************************************)

MaxResults == 2

\* The engine (Web Speech API).  Its states:
\*   idle      : no session
\*   starting  : start() accepted, the start event not yet delivered
\*   running   : the start event delivered
\*   cancelled : stop() called before the start event was delivered; the
\*               engine may still deliver it, and then delivers end
\*   stopping  : the session is over (stop(), an error or the service
\*               disconnecting), the end event not yet delivered
\* start() throws InvalidStateError unless the engine is idle; stop()
\* does nothing when there is no session.
engineStart(engine) ==
    IF engine = "idle" THEN [engine |-> "starting", threw |-> FALSE]
    ELSE [engine |-> engine, threw |-> TRUE]

engineStop(engine) ==
    CASE engine = "starting" -> "cancelled"
      [] engine = "running" -> "stopping"
      [] OTHER -> engine

\* new WebSpeechTranscriber(callbacks) in a browser that has the API.
\* status is the argument of the latest onStatusChange; calledStart tells
\* whether the latest operation called recognition.start(); stopCalled:
\* stop() has been called and neither start() nor resume() since; pauseHeld:
\* pause() was called on a listening transcriber and since then neither
\* resume() nor stop() was called nor an error reported.
\* finals and interims count the calls of onFinal and onInterim.
Constructed ==
    [mounted |-> TRUE, listening |-> FALSE, paused |-> FALSE, engine |-> "idle",
     status |-> None, lastOp |-> "new", calledStart |-> FALSE,
     stopCalled |-> FALSE, pauseHeld |-> FALSE, finals |-> 0, interims |-> 0]

OnlyTranscriber ==
    UNCHANGED <<parserVars, appVars, extraction, editor, audioRecorder, recorder, meter,
                transcriptionEditor>>

\* start()
TranscriberStart ==
    /\ transcriber.mounted
    /\ transcriber' =
           IF transcriber.listening
           THEN [transcriber EXCEPT !.lastOp = "start", !.calledStart = FALSE,
                                    !.stopCalled = FALSE]
           ELSE [transcriber EXCEPT
                    !.paused = FALSE,
                    !.engine = engineStart(@).engine,
                    !.lastOp = "start", !.calledStart = TRUE,
                    !.stopCalled = FALSE]
    /\ OnlyTranscriber

\* pause()
TranscriberPause ==
    /\ transcriber.mounted
    /\ transcriber' =
           [transcriber EXCEPT
               !.paused = TRUE,
               !.engine = engineStop(@),
               !.status = Some("paused"),
               !.lastOp = "pause", !.calledStart = FALSE,
               !.pauseHeld = transcriber.listening]
    /\ OnlyTranscriber

\* resume(): the status is reported only when recognition.start() returned.
TranscriberResume ==
    /\ transcriber.mounted
    /\ LET started == engineStart(transcriber.engine)
       IN  transcriber' =
               [transcriber EXCEPT
                   !.paused = FALSE,
                   !.engine = started.engine,
                   !.status = IF started.threw THEN @ ELSE Some("listening"),
                   !.lastOp = "resume", !.calledStart = TRUE,
                   !.stopCalled = FALSE, !.pauseHeld = FALSE]
    /\ OnlyTranscriber

\* stop()
TranscriberStop ==
    /\ transcriber.mounted
    /\ transcriber' =
           [transcriber EXCEPT
               !.listening = FALSE,
               !.paused = FALSE,
               !.engine = engineStop(@),
               !.status = Some("stopped"),
               !.lastOp = "stop", !.calledStart = FALSE,
               !.stopCalled = TRUE, !.pauseHeld = FALSE]
    /\ OnlyTranscriber

\* recognition.onstart
OnStart ==
    /\ transcriber.mounted
    /\ transcriber.engine \in {"starting", "cancelled"}
    /\ transcriber' =
           [transcriber EXCEPT
               !.engine = IF @ = "starting" THEN "running" ELSE "stopping",
               !.listening = TRUE,
               !.status = Some("listening"),
               !.lastOp = "onstart", !.calledStart = FALSE]
    /\ OnlyTranscriber

\* The end handler restarts recognition when listening and not paused.
restarts(t) == t.listening /\ ~t.paused

\* recognition.onend: the session is over when the event is delivered.  A
\* running engine ends by itself when the service disconnects.
OnEnd ==
    /\ transcriber.mounted
    /\ transcriber.engine \in {"running", "stopping", "cancelled"}
    /\ transcriber' =
           IF restarts(transcriber)
           THEN [transcriber EXCEPT
                    !.engine = engineStart("idle").engine,
                    !.lastOp = "onend", !.calledStart = TRUE]
           ELSE [transcriber EXCEPT
                    !.engine = "idle",
                    !.status = Some("stopped"),
                    !.lastOp = "onend", !.calledStart = FALSE]
    /\ OnlyTranscriber

\* recognition.onerror: the engine reports an error and ends the session.
OnError ==
    /\ transcriber.mounted
    /\ transcriber.engine \in {"starting", "running"}
    /\ transcriber' =
           [transcriber EXCEPT
               !.engine = "stopping",
               !.status = Some("error"),
               !.lastOp = "onerror", !.calledStart = FALSE,
               !.pauseHeld = FALSE]
    /\ OnlyTranscriber

\* recognition.onresult with one result, final or interim.  The engine
\* delivers results while it listens and, after stop(), the result of the
\* audio captured so far.
OnResult(isFinal) ==
    /\ transcriber.mounted
    /\ transcriber.engine \in {"running", "stopping"}
    /\ transcriber.finals + transcriber.interims < MaxResults
    /\ transcriber' =
           [transcriber EXCEPT
               !.finals = IF isFinal THEN @ + 1 ELSE @,
               !.interims = IF isFinal THEN @ ELSE @ + 1,
               !.lastOp = "onresult", !.calledStart = FALSE]
    /\ OnlyTranscriber

TranscriberInit ==
    /\ transcript = <<>>
    /\ provider = None
    /\ clock = 0
    /\ result = NoCall
    /\ firstResult = NoCall
    /\ lastMeds = <<>>
    /\ otherCalled = FALSE
    /\ AppMounted
    /\ editor = NotMounted
    /\ audioRecorder = NotMounted
    /\ transcriber = Constructed
    /\ recorder = NotMounted
    /\ meter = NotMounted
    /\ transcriptionEditor = NotMounted
    /\ extraction = NotExtracting

TranscriberNext ==
    \/ TranscriberStart
    \/ TranscriberPause
    \/ TranscriberResume
    \/ TranscriberStop
    \/ OnStart
    \/ OnEnd
    \/ OnError
    \/ \E isFinal \in BOOLEAN : OnResult(isFinal)

TranscriberSpec == TranscriberInit /\ [][TranscriberNext]_vars

(***************************************************************************)
(* useAudioRecorder: the hook, its MediaRecorders and their events         *)
(***************************************************************************)

MaxRecorders == 2
MaxChunks == 2
MaxPending == 1

RecorderIds == 1..MaxRecorders

\* A MediaRecorder not yet constructed.  state is the attribute of the
\* MediaRecorder; after stop() the engine delivers dataavailable and then
\* stop: pending names the event it delivers next; parts counts the
\* dataavailable events delivered.
NoRecorder == [state |-> "none", pending |-> "none", parts |-> 0]

\* The hook when the component is mounted.  mediaRecorderRef, streamRef and
\* audioMeterRef hold the number of the recorder (and of its stream) or 0
\* for null; live tells which streams have running tracks; awaiting counts
\* the startRecording calls suspended at the permission query and at
\* getUserMedia; blob is the argument of the latest onStop call, reported
\* of the latest onError call.
HookMounted ==
    [mounted |-> TRUE, isListening |-> FALSE, isPaused |-> FALSE, error |-> None,
     mediaRecorderRef |-> 0, streamRef |-> 0, audioMeterRef |-> 0,
     audioChunks |-> <<>>,
     recorders |-> [i \in RecorderIds |-> NoRecorder],
     live |-> [i \in RecorderIds |-> FALSE],
     awaiting |-> [permission |-> 0, stream |-> 0],
     onStopCalls |-> 0, blob |-> None, reported |-> None,
     lastOp |-> [op |-> "mount", rec |-> 0]]

\* MediaRecorder.stop(): the recorder is inactive at once, its events follow.
stopped(r) == [r EXCEPT !.state = "inactive", !.pending = "data"]

\* cleanupResources()
cleanupResources(h) ==
    [h EXCEPT
        !.audioMeterRef = 0,
        !.live = [i \in RecorderIds |-> h.live[i] /\ i # h.streamRef],
        !.streamRef = 0,
        !.recorders =
            [i \in RecorderIds |->
                IF i = h.mediaRecorderRef /\ h.recorders[i].state # "inactive"
                THEN stopped(h.recorders[i]) ELSE h.recorders[i]],
        !.mediaRecorderRef = 0,
        !.audioChunks = <<>>]

\* handleError(err)
handleError(h, err) ==
    [cleanupResources([h EXCEPT !.error = Some(err), !.isListening = FALSE,
                                !.isPaused = FALSE])
        EXCEPT !.reported = Some(err)]

\* An onstop handler that passes whatever was collected to onStop.
onstopUnchecked(h) ==
    cleanupResources([h EXCEPT !.onStopCalls = @ + 1,
                               !.blob = Some(h.audioChunks)])

\* mediaRecorder.onstop
onstop(h) ==
    IF Len(h.audioChunks) = 0
    THEN cleanupResources(handleError(h, "No audio data recorded"))
    ELSE onstopUnchecked(h)

Did(h, op, rec) == [h EXCEPT !.lastOp = [op |-> op, rec |-> rec]]

OnlyRecorder ==
    UNCHANGED <<parserVars, appVars, extraction, editor, audioRecorder, transcriber, meter,
                transcriptionEditor>>

created(h) == Cardinality({i \in RecorderIds : h.recorders[i].state # "none"})
inFlight(h) == h.awaiting.permission + h.awaiting.stream

\* startRecording() up to its first await: setError(null) and the
\* permission query.
StartRecording ==
    /\ recorder.mounted
    /\ inFlight(recorder) < MaxPending
    /\ created(recorder) + inFlight(recorder) < MaxRecorders
    /\ recorder' = Did([recorder EXCEPT !.error = None,
                                        !.awaiting.permission = @ + 1],
                       "startRecording", 0)
    /\ OnlyRecorder

\* checkPermission() resolves: when denied the call reports the error and
\* returns; otherwise it cleans up and asks for the stream.
PermissionChecked(granted) ==
    /\ recorder.mounted
    /\ recorder.awaiting.permission > 0
    /\ LET h == [recorder EXCEPT !.awaiting.permission = @ - 1]
       IN  recorder' =
               Did(IF granted
                   THEN [cleanupResources(h) EXCEPT !.awaiting.stream = @ + 1]
                   ELSE handleError(h, "Microphone permission denied"),
                   "checkPermission", 0)
    /\ OnlyRecorder

\* getUserMedia resolves: the rest of startRecording runs; the new stream,
\* meter and MediaRecorder get the next number.
StreamAcquired ==
    /\ recorder.mounted
    /\ recorder.awaiting.stream > 0
    /\ LET id == created(recorder) + 1
       IN  recorder' =
               Did([recorder EXCEPT
                       !.awaiting.stream = @ - 1,
                       !.streamRef = id,
                       !.live[id] = TRUE,
                       !.audioMeterRef = id,
                       !.mediaRecorderRef = id,
                       !.audioChunks = <<>>,
                       !.recorders[id] = [NoRecorder EXCEPT !.state = "recording"],
                       !.isListening = TRUE,
                       !.isPaused = FALSE],
                   "started", id)
    /\ OnlyRecorder

\* stopRecording()
StopRecording ==
    /\ recorder.mounted
    /\ LET ref == recorder.mediaRecorderRef
           h == IF ref # 0 /\ recorder.recorders[ref].state # "inactive"
                THEN [recorder EXCEPT !.recorders[ref] = stopped(@)]
                ELSE recorder
       IN  recorder' = Did([h EXCEPT !.isListening = FALSE, !.isPaused = FALSE],
                           "stopRecording", ref)
    /\ OnlyRecorder

\* pauseRecording()
PauseRecording ==
    /\ recorder.mounted
    /\ LET ref == recorder.mediaRecorderRef
       IN  recorder' =
               Did(IF ref # 0 /\ recorder.recorders[ref].state = "recording"
                   THEN [recorder EXCEPT !.recorders[ref].state = "paused",
                                         !.isPaused = TRUE]
                   ELSE recorder,
                   "pauseRecording", ref)
    /\ OnlyRecorder

\* resumeRecording()
ResumeRecording ==
    /\ recorder.mounted
    /\ LET ref == recorder.mediaRecorderRef
       IN  recorder' =
               Did(IF ref # 0 /\ recorder.recorders[ref].state = "paused"
                   THEN [recorder EXCEPT !.recorders[ref].state = "recording",
                                         !.isPaused = FALSE]
                   ELSE recorder,
                   "resumeRecording", ref)
    /\ OnlyRecorder

\* mediaRecorder.ondataavailable of recorder i, with a chunk of the given
\* size: at the end of a timeslice while it records, or as the first event
\* after stop().  The chunk is pushed on whatever list audioChunks holds.
DataAvailable(i, size) ==
    /\ recorder.mounted
    /\ \/ recorder.recorders[i].state = "recording"
       \/ recorder.recorders[i].pending = "data"
    /\ recorder.recorders[i].parts < MaxChunks
    /\ LET part == recorder.recorders[i].parts + 1
           h == [recorder EXCEPT
                    !.recorders[i].parts = part,
                    !.recorders[i].pending = IF @ = "data" THEN "stop" ELSE @]
       IN  recorder' =
               Did(IF size > 0
                   THEN [h EXCEPT !.audioChunks =
                                      Append(@, [from |-> i, part |-> part])]
                   ELSE h,
                   "dataavailable", i)
    /\ OnlyRecorder

\* The stop event of recorder i.
RecorderStopped(i) ==
    /\ recorder.mounted
    /\ recorder.recorders[i].pending = "stop"
    /\ recorder' = Did(onstop([recorder EXCEPT !.recorders[i].pending = "none"]),
                       "stop", i)
    /\ OnlyRecorder

\* mediaRecorder.onerror of recorder i: the engine stops the recorder and
\* the handler reports the error.
RecorderError(i) ==
    /\ recorder.mounted
    /\ recorder.recorders[i].state \in {"recording", "paused"}
    /\ recorder' = Did(handleError([recorder EXCEPT !.recorders[i] = stopped(@)],
                                   "MediaRecorder error"),
                       "error", i)
    /\ OnlyRecorder

RecorderInit ==
    /\ transcript = <<>>
    /\ provider = None
    /\ clock = 0
    /\ result = NoCall
    /\ firstResult = NoCall
    /\ lastMeds = <<>>
    /\ otherCalled = FALSE
    /\ AppMounted
    /\ editor = NotMounted
    /\ audioRecorder = NotMounted
    /\ transcriber = NotMounted
    /\ recorder = HookMounted
    /\ meter = NotMounted
    /\ transcriptionEditor = NotMounted
    /\ extraction = NotExtracting

RecorderNext ==
    \/ StartRecording
    \/ \E granted \in BOOLEAN : PermissionChecked(granted)
    \/ StreamAcquired
    \/ StopRecording
    \/ PauseRecording
    \/ ResumeRecording
    \/ \E i \in RecorderIds, size \in {0, 1} : DataAvailable(i, size)
    \/ \E i \in RecorderIds : RecorderStopped(i)
    \/ \E i \in RecorderIds : RecorderError(i)

RecorderSpec == RecorderInit /\ [][RecorderNext]_vars

(***************************************************************************)
(* AudioMeter: the level loop and the silence timer                        *)
(***************************************************************************)

\* Levels are in hundredths: silenceThreshold is 0.05, smoothingFactor 0.8.
silenceThreshold == 5
smoothingFactor == 80
MaxSilences == 3

\* The levels the analyser data combine to.
Levels == {0, 4, 100}
TimerIds == {1, 2}

\* new AudioMeter(callbacks).  running: the analyser exists; rafPending: an
\* animation frame is requested; silenceTimer: the handle held (0 for
\* null); timers: the timeouts pending in the browser; quiet: every sample
\* since a timer was armed was below the threshold; silences: the
\* arguments of the onSilence calls of this session; called: the callbacks
\* the latest operation made.
MeterCreated ==
    [mounted |-> TRUE, running |-> FALSE, rafPending |-> FALSE,
     silenceTimer |-> 0, timers |-> {}, isSilent |-> FALSE, smoothedLevel |-> 0,
     quiet |-> FALSE, silences |-> <<>>, called |-> <<>>, lastOp |-> "new"]

smoothed(m, level) ==
    (smoothingFactor * m.smoothedLevel + (100 - smoothingFactor) * level) \div 100

\* A level below the threshold arms a timer whatever timer is pending.
armsWheneverQuiet(m, level) == level < silenceThreshold /\ ~m.isSilent

\* The condition under which checkSilence arms the silence timer.
arms(m, level) == level < silenceThreshold /\ ~m.isSilent /\ m.silenceTimer = 0

\* checkSilence(level)
checkSilence(m, level) ==
    IF level < silenceThreshold
    THEN IF arms(m, level)
         THEN LET id == CHOOSE t \in TimerIds : t \notin m.timers
              IN  [m EXCEPT !.silenceTimer = id, !.timers = @ \cup {id},
                            !.quiet = TRUE]
         ELSE m
    ELSE LET cleared == [m EXCEPT !.silenceTimer = 0,
                                  !.timers = @ \ {m.silenceTimer},
                                  !.quiet = FALSE]
         IN  IF m.isSilent
             THEN [cleared EXCEPT !.isSilent = FALSE,
                                  !.silences = Append(@, FALSE),
                                  !.called = Append(@, "onSilence")]
             ELSE cleared

\* One run of loop with the analyser in place.
loop(m, level) ==
    LET level1 == smoothed(m, level)
        checked == checkSilence([m EXCEPT !.smoothedLevel = level1, !.called = <<>>],
                                level1)
    IN  [checked EXCEPT !.called = Append(@, "onLevel"), !.rafPending = TRUE]

OnlyMeter ==
    UNCHANGED <<parserVars, appVars, extraction, editor, audioRecorder, transcriber, recorder,
                transcriptionEditor>>

\* start(stream): the nodes are created and loop runs once.
MeterStart(level) ==
    /\ meter.mounted
    /\ ~meter.running
    /\ meter' = [loop([meter EXCEPT !.running = TRUE, !.silences = <<>>], level)
                    EXCEPT !.lastOp = "start"]
    /\ OnlyMeter

\* The animation frame: loop.
Frame(level) ==
    /\ meter.mounted
    /\ meter.rafPending
    /\ Len(meter.silences) < MaxSilences
    /\ meter' = [(IF ~meter.running
                  THEN [meter EXCEPT !.rafPending = FALSE, !.called = <<>>]
                  ELSE loop(meter, level))
                    EXCEPT !.lastOp = "frame"]
    /\ OnlyMeter

\* A pending timeout expires: the callback checkSilence set.
SilenceTimeout(id) ==
    /\ meter.mounted
    /\ id \in meter.timers
    /\ Len(meter.silences) < MaxSilences
    /\ meter' = [meter EXCEPT
                    !.timers = @ \ {id},
                    !.isSilent = TRUE,
                    !.silences = Append(@, TRUE),
                    !.called = <<"onSilence">>,
                    !.silenceTimer = 0,
                    !.lastOp = "timeout"]
    /\ OnlyMeter

\* stop()
MeterStop ==
    /\ meter.mounted
    /\ meter' = [meter EXCEPT
                    !.rafPending = FALSE,
                    !.timers = @ \ {meter.silenceTimer},
                    !.silenceTimer = 0,
                    !.running = FALSE,
                    !.isSilent = FALSE,
                    !.smoothedLevel = 0,
                    !.called = <<>>,
                    !.lastOp = "stop"]
    /\ OnlyMeter

MeterInit ==
    /\ transcript = <<>>
    /\ provider = None
    /\ clock = 0
    /\ result = NoCall
    /\ firstResult = NoCall
    /\ lastMeds = <<>>
    /\ otherCalled = FALSE
    /\ AppMounted
    /\ editor = NotMounted
    /\ audioRecorder = NotMounted
    /\ transcriber = NotMounted
    /\ recorder = NotMounted
    /\ meter = MeterCreated
    /\ transcriptionEditor = NotMounted
    /\ extraction = NotExtracting

MeterNext ==
    \/ \E level \in Levels : MeterStart(level)
    \/ \E level \in Levels : Frame(level)
    \/ \E id \in TimerIds : SilenceTimeout(id)
    \/ MeterStop

MeterSpec == MeterInit /\ [][MeterNext]_vars

(***************************************************************************)
(* TranscriptionEditor: debounced validation and Generate Prescription     *)
(***************************************************************************)

MaxAnalyses == 2

\* The regular expressions validateTranscription decides its errors with.
AnyOfI(words) == <<Alt([k \in 1..Len(words) |-> LitI(words[k])])>>
\* [A-Z][a-z]+(?:\s+[A-Z][a-z]+)? under the i flag
CapitalizedWords ==
    <<CharSet(Letter), Plus(<<CharSet(Letter)>>),
      Opt(Ws1 \o <<CharSet(Letter), Plus(<<CharSet(Letter)>>)>>)>>
PatientPattern == AnyOfI(<<"patient", "name">>)
DiagnosisPattern ==
    <<Alt(<<LitI("diagnos") \o AnyOfI(<<"is", "ed with">>),
            LitI("assessment"), LitI("impression")>>)>>
MedicationPattern ==
    AnyOfI(<<"prescribe", "medication", "take", "dose", "mg", "tablet", "capsule">>)
NamedDosePattern ==
    <<WordBoundary>> \o CapitalizedWords \o <<WordBoundary>> \o Ws1 \o Digits1
        \o Ws0 \o AnyOfI(<<"mg", "mcg", "g", "ml", "%">>)
PrescribedNamePattern == LitI("prescribe") \o Ws1 \o CapitalizedWords
DosagePattern == Digits1 \o Ws0 \o AnyOfI(<<"mg", "mcg", "g", "ml", "%", "units">>)
AllergicPattern == LitI("allergic")
PrescribeOrTakePattern == AnyOfI(<<"prescribe", "take">>)
ContraindicatedPattern == LitI("contraindicated")
StartPattern == AnyOfI(<<"start", "begin", "initiate">>)

When(cond, message) == IF cond THEN <<message>> ELSE <<>>

\* The errors of validateTranscription(text), in the order they are
\* pushed.  The warnings take no part in what handleAnalyzeClick decides
\* and are left out.
validationErrors(text) ==
    When(~Test(text, PatientPattern), "Patient identification information missing")
    \o When(~Test(text, DiagnosisPattern),
            "Diagnosis information missing - required for prescription")
    \o (IF ~Test(text, MedicationPattern)
        THEN <<"No medication details detected - required for prescription">>
        ELSE When(~(Test(text, NamedDosePattern) \/ Test(text, PrescribedNamePattern)),
                  "Medication name not clearly specified")
             \o When(~Test(text, DosagePattern),
                     "Medication dosage information missing"))
    \o When(\/ Test(text, AllergicPattern) /\ Test(text, PrescribeOrTakePattern)
            \/ Test(text, ContraindicatedPattern) /\ Test(text, StartPattern),
            "Potential contradiction detected - check for medication allergies or contraindications")

validateTranscription(text) ==
    LET errors == validationErrors(text)
    IN  [isValid |-> Len(errors) = 0, errors |-> errors]

Valid == [isValid |-> TRUE, errors |-> <<>>]

\* The texts the parent passes as transcription.
TranscriptionTexts ==
    {Chars(""),
     Chars("   "),
     Chars("hello doctor"),
     Chars("Patient name is Ann. Diagnosis is flu. Take rest"),
     Chars("Patient name is Ann. Diagnosis is flu. Prescribe Amoxil 500 mg daily"),
     Chars("Patient Ann is allergic to penicillin. Assessment: flu. Take Amoxil 500 mg")}

\* The component after its first render and effect, on an empty text.
\* timer is the text the pending validation timeout will validate.
TranscriptionEditorMounted ==
    [mounted |-> TRUE, transcription |-> Chars(""), validationResult |-> Valid,
     showValidation |-> FALSE, timer |-> None, analyses |-> 0,
     passed |-> None, lastOp |-> "mount"]

OnlyTranscriptionEditor ==
    UNCHANGED <<parserVars, appVars, extraction, editor, audioRecorder, transcriber, recorder, meter>>

\* The text changes (typing, or a transcription arriving): the effect
\* clears the pending timeout and either sets a new one or, for a blank
\* text, resets the result.
ChangeText(text) ==
    /\ transcriptionEditor.mounted
    /\ text # transcriptionEditor.transcription
    /\ transcriptionEditor' =
           IF Len(Trim(text)) > 0
           THEN [transcriptionEditor EXCEPT
                    !.transcription = text, !.timer = Some(text),
                    !.lastOp = "change"]
           ELSE [transcriptionEditor EXCEPT
                    !.transcription = text, !.timer = None,
                    !.validationResult = Valid, !.lastOp = "change"]
    /\ OnlyTranscriptionEditor

\* The 500 ms timeout expires.
Validated ==
    /\ transcriptionEditor.mounted
    /\ transcriptionEditor.timer # None
    /\ transcriptionEditor' =
           [transcriptionEditor EXCEPT
               !.validationResult = validateTranscription(transcriptionEditor.timer[1]),
               !.timer = None, !.lastOp = "validated"]
    /\ OnlyTranscriptionEditor

\* What handleAnalyzeClick tests before it calls onAnalyze.
blocked(e) == Len(e.validationResult.errors) > 0

\* handleAnalyzeClick: the button is enabled when hasTranscription
\* (the text is not blank) and not isAnalyzing.
ClickGenerate ==
    /\ transcriptionEditor.mounted
    /\ Len(Trim(transcriptionEditor.transcription)) > 0
    /\ transcriptionEditor.analyses < MaxAnalyses
    /\ transcriptionEditor' =
           IF blocked(transcriptionEditor)
           THEN [transcriptionEditor EXCEPT !.showValidation = TRUE,
                                            !.lastOp = "refused"]
           ELSE [transcriptionEditor EXCEPT
                    !.showValidation = TRUE,
                    !.analyses = @ + 1,
                    !.passed = Some(transcriptionEditor.validationResult),
                    !.lastOp = "onAnalyze"]
    /\ OnlyTranscriptionEditor

TranscriptionEditorInit ==
    /\ transcript = <<>>
    /\ provider = None
    /\ clock = 0
    /\ result = NoCall
    /\ firstResult = NoCall
    /\ lastMeds = <<>>
    /\ otherCalled = FALSE
    /\ AppMounted
    /\ editor = NotMounted
    /\ audioRecorder = NotMounted
    /\ transcriber = NotMounted
    /\ recorder = NotMounted
    /\ meter = NotMounted
    /\ transcriptionEditor = TranscriptionEditorMounted
    /\ extraction = NotExtracting

TranscriptionEditorNext ==
    \/ \E text \in TranscriptionTexts : ChangeText(text)
    \/ Validated
    \/ ClickGenerate

TranscriptionEditorSpec ==
    TranscriptionEditorInit /\ [][TranscriptionEditorNext]_vars

(***************************************************************************)
(* extractMedications, one step of its loops at a time                     *)
(***************************************************************************)

\* The texts extractMedications is stepped through: one phrase per pattern as
\* the source's comments give them, phrases of the verb patterns that hold a
\* tablet word, a formulation word or "as needed for", and a text with a
\* warning line and a global instruction.
MedicationTexts ==
    { Chars("Amoxicillin 500 mg twice daily for 7 days"),
      Chars("Take Amoxicillin 500 mg twice daily"),
      Chars("Prescribe Lisinopril 10 mg once daily"),
      Chars("Start Metformin 500 mg with meals"),
      Chars("Continue Atorvastatin 20 mg at bedtime"),
      Chars("Aspirin 81 mg, 1 tablet daily"),
      Chars("Fluticasone nasal spray, 2 sprays daily"),
      Chars("Tylenol as needed for pain"),
      Chars("Start Metformin 500 mg 1 tablet daily"),
      Chars("Prescribe Hydrocortisone cream twice daily"),
      Chars("Continue Tylenol 500 mg as needed for pain"),
      Chars("Start Insulin 10 units one dose daily"),
      Chars("Start Timolol drops in each eye"),
      Chars("Start Metformin 500 mg bid. Continue Aspirin 81 mg daily"),
      Chars("Continue Aspirin 81 mg.\nAvoid alcohol. Take all medications with food"),
      Chars("no medication today") }

\* The branch of the if/else-if chain that handles a match with text m0.
branch(m0) ==
    IF Test(m0, <<TabletWord>>) THEN "tablet"
    ELSE IF Test(m0, <<FormWord>>) THEN "formulation"
    ELSE IF Test(m0, AsNeededFor) THEN "asNeeded"
    ELSE "standard"

\* extractMedications(text) at its first statement of the loops: no
\* medication yet, the first pattern, its lastIndex at the first character.
Extracting(text) ==
    [ running |-> TRUE, text |-> text, j |-> 1, lastIndex |-> 1, meds |-> <<>>,
      last |-> None, returned |-> FALSE ]

\* m = re.exec(text) of the pattern in turn.
exec(x) == Exec(x.text, regexes[x.j].re, regexes[x.j].groups, x.lastIndex)

\* What the loop body did with match m of pattern j.
Handled(text, j, m) ==
    [ pattern |-> j, match |-> m, branch |-> branch(Whole(text, m)),
      fields |-> MatchFields(text, m) ]

OnlyExtraction == UNCHANGED <<parserVars, appVars, uiVars>>

\* One turn of the while loop: exec found a match, the body maps its groups
\* and pushes the entry, and exec has moved lastIndex to the end of the match.
ExecMatches ==
    /\ extraction.running /\ extraction.j <= Len(regexes)
    /\ Let(exec(extraction),
           LAMBDA m : /\ m.ok /\ m.end > m.index
                      /\ extraction' =
                           [extraction EXCEPT
                              !.lastIndex = m.end,
                              !.meds = @ \o medicationOf(extraction.text, m),
                              !.last = Some(Handled(extraction.text, extraction.j, m))])
    /\ OnlyExtraction

\* exec returned null: the while loop ends and the for loop takes the next
\* pattern, a fresh literal whose lastIndex is at the first character.
ExecReturnsNull ==
    /\ extraction.running /\ extraction.j <= Len(regexes)
    /\ ~exec(extraction).ok
    /\ extraction' = [extraction EXCEPT !.j = @ + 1, !.lastIndex = 1, !.last = None]
    /\ OnlyExtraction

\* After the last pattern: the warning lines of the text are added to every
\* medication, the global instruction fills the instructions that are
\* missing, and meds is returned.
ReturnMeds ==
    /\ extraction.running /\ extraction.j > Len(regexes) /\ ~extraction.returned
    /\ extraction' =
         [extraction EXCEPT
            !.meds = addGlobalInstruction(addWarnings(@, warningLines(extraction.text)),
                                          globalInstruction(extraction.text)),
            !.returned = TRUE]
    /\ OnlyExtraction

ExtractionInit ==
    /\ transcript = <<>>
    /\ provider = None
    /\ clock = 0
    /\ result = NoCall
    /\ firstResult = NoCall
    /\ lastMeds = <<>>
    /\ otherCalled = FALSE
    /\ AppMounted
    /\ editor = NotMounted
    /\ audioRecorder = NotMounted
    /\ transcriber = NotMounted
    /\ recorder = NotMounted
    /\ meter = NotMounted
    /\ transcriptionEditor = NotMounted
    /\ extraction \in {Extracting(text) : text \in MedicationTexts}

ExtractionNext ==
    \/ ExecMatches
    \/ ExecReturnsNull
    \/ ReturnMeds

ExtractionSpec ==
    ExtractionInit /\ [][ExtractionNext]_vars

(***************************************************************************)
(* Properties of the parser                                                *)
(***************************************************************************)

HasReturned == result.status = "returned"
\* The document the latest call returned, and what its text holds.
document == result.doc[1]
scanned == scan(normalizedText(transcript))
medications == document.medications

\* Every field whose pattern does not occur in the text is absent.
AbsentWhenUnmatched ==
    LET m == scanned.matched
    IN  /\ ~m.name => document.patient.name = None
        /\ ~m.age => document.patient.age = None
        /\ ~m.gender => document.patient.gender = None
        /\ ~m.phone => document.patient.contact.phone = None
        /\ ~m.email => document.patient.contact.email = None
        /\ ~m.address => document.patient.contact.address = None
        /\ ~m.history => document.history = None
        /\ ~m.currentConditions => document.currentConditions = None
        /\ ~m.vitals => document.vitals = None
        /\ ~m.examination => document.examination = None
        /\ ~m.diagnosis => document.diagnosis = None
        /\ ~m.instructions => document.instructions = None
        /\ (~m.notes /\ provider = None) => document.notes = None
        /\ ~m.overview => document.summary[1].overview = None
        /\ ~m.keyFindings => document.summary[1].keyFindings = <<>>
        /\ ~m.decisions => document.summary[1].decisions = <<>>
        /\ ~m.followUp => document.summary[1].followUp = None
        /\ ~m.specialInstructions => document.summary[1].specialInstructions = None
        /\ scanned.found.matches = 0 => medications = <<>>

SameButTimestamps(a, b) ==
    [a EXCEPT !.createdAt = 0, !.updatedAt = 0] = [b EXCEPT !.createdAt = 0, !.updatedAt = 0]

\* C2: parsing is deterministic and keeps no state between calls. The latest
\* call with the observed arguments and the first one, whatever calls were
\* made in between (by this or by other call sites), end the same way and
\* return documents that agree in every field but createdAt and updatedAt.
ParseKeepsNoState ==
    result # NoCall =>
        /\ result.status = firstResult.status
        /\ HasReturned => SameButTimestamps(firstResult.doc[1], document)

\* C2 witness: the third call repeats the first, another call site's call lies
\* between them, and the document holds a medication and differs from the
\* first in its timestamps only.
ParseKeepsNoStateWitness ==
    /\ HasReturned
    /\ otherCalled
    /\ firstResult.doc[1].createdAt = 1
    /\ document.createdAt = 3
    /\ Len(medications) > 0
    /\ firstResult.doc[1].medications = medications

NormalizedFrequencies ==
    {"Once daily", "Twice daily", "Three times daily", "Four times daily", "As needed (PRN)"}

\* C3: whenever a medication of the document has a frequency, it is one of
\* the five normalized strings, never the raw matched text.
FrequencyIsNormalized ==
    HasReturned =>
        \A i \in 1..Len(medications) :
            medications[i].frequency # None =>
                medications[i].frequency[1] \in NormalizedFrequencies

NormalizedRoutes ==
    {"PO", "IM", "IV", "SC", "Topical", "Inhaled", "SL", "Nasal", "Ophthalmic", "Otic"}

\* C4: whenever a medication of the document has a route, it is one of the
\* codes of the fixed vocabulary, whatever the spelling and letter case of the
\* route word in the text.
RouteIsNormalized ==
    HasReturned =>
        \A i \in 1..Len(medications) :
            medications[i].route # None => medications[i].route[1] \in NormalizedRoutes

\* C5: every entry of the medication list has a non-empty name. A match whose
\* name capture is undefined or empty yields no entry, and the warning fan-out
\* and the global-instruction backfill neither add an entry nor change a name:
\* the names of the list are the names pushed by the pattern loops.
EveryMedicationIsNamed ==
    HasReturned =>
        /\ \A i \in 1..Len(medications) : medications[i].name # ""
        /\ Len(medications) <= scanned.found.matches
        /\ Len(medications) = Len(scanned.found.meds)
        /\ \A i \in 1..Len(medications) : medications[i].name = scanned.found.meds[i].name

\* C5 witness: a text in which one match has no name capture and yields no
\* entry, another match yields an entry, and the warning fan-out has run.
EveryMedicationIsNamedWitness ==
    /\ HasReturned
    /\ scanned.found.matches > Len(medications)
    /\ Len(medications) > 0
    /\ medications[1].warnings # None

\* C6: warning fan-out. When lines of the normalized text hold a warning
\* keyword, every medication of the document carries exactly those lines,
\* trimmed and in text order, as its warnings; for the two medications
\* followed by 'avoid grapefruit juice' both carry that line.
WarningFanOut ==
    HasReturned =>
        /\ Len(scanned.warningLines) > 0 =>
              \A i \in 1..Len(medications) :
                  medications[i].warnings = Some(scanned.warningLines)
        /\ transcript = <<Phrases[4], Phrases[5]>> =>
              /\ Len(medications) = 2
              /\ \A i \in 1..2 : medications[i].warnings = Some(<<"avoid grapefruit juice">>)

\* C6 witness: two medications and the grapefruit line, the second medication
\* carrying the line too.
WarningFanOutWitness ==
    /\ HasReturned
    /\ transcript = <<Phrases[4], Phrases[5]>>
    /\ Len(medications) = 2
    /\ medications[2].warnings = Some(<<"avoid grapefruit juice">>)

\* C7: for the single utterance 'Patient John Smith, 45 year old male.
\* Diagnosis: Hypertension. Prescribe Lisinopril 10 mg once daily. Follow up in
\* 2 weeks.' the document holds exactly one medication, named 'Lisinopril',
\* with dose '10 mg' and frequency 'Once daily'.
ScenarioMedication ==
    (HasReturned /\ transcript = <<Phrases[1]>>) =>
        /\ Len(medications) = 1
        /\ medications[1].name = "Lisinopril"
        /\ medications[1].dose = Some("10 mg")
        /\ medications[1].frequency = Some("Once daily")

\* C8: for the same single utterance the document holds patient.name 'John
\* Smith', patient.age 45, patient.gender 'male', diagnosis.primary
\* 'Hypertension.' (or 'Hypertension') and a non-empty summary.followUp.
ScenarioPatient ==
    (HasReturned /\ transcript = <<Phrases[1]>>) =>
        /\ document.patient.name = Some("John Smith")
        /\ document.patient.age = Some(45)
        /\ document.patient.gender = Some("male")
        /\ document.diagnosis # None
        /\ document.diagnosis[1].primary \in {Some("Hypertension."), Some("Hypertension")}
        /\ document.summary # None
        /\ document.summary[1].followUp \notin {None, Some("")}

EmptyInput == provider = None /\ \A i \in 1..Len(transcript) : transcript[i].text = Some("")

EmptyButSummary ==
    /\ medications = <<>>
    /\ document.version = 1
    /\ document.history = None
    /\ document.currentConditions = None
    /\ document.vitals = None
    /\ document.examination = None
    /\ document.diagnosis = None
    /\ document.instructions = None
    /\ document.notes = None

PlainPhrases ==
    { <<Utterance("Doctor", Some("Amoxicillin 500 mg twice daily for 7 days"))>>,
      <<Utterance("Doctor", Some("Take Amoxicillin 500 mg twice daily for 7 days"))>> }

\* C10: the plain phrase 'Amoxicillin 500 mg twice daily for 7 days', with or
\* without a leading 'Take', is extracted as a medication whose name is
\* 'Amoxicillin' and whose dose is '500 mg'.
PlainPhraseExtracted ==
    (HasReturned /\ transcript \in PlainPhrases) =>
        \E i \in 1..Len(medications) :
            /\ medications[i].name = "Amoxicillin"
            /\ medications[i].dose = Some("500 mg")

(***************************************************************************)
(* Properties of the extractors on the consultation                        *)
(***************************************************************************)

\* A line that begins with a capitalized word followed by a colon or a dash:
\* /^\s*[A-Z][A-Za-z\s]*[:\-]/ on one line.
HeaderLike(line) ==
    \E k \in 1..Len(line) :
        /\ line[k] \in {":", "-"}
        /\ \E c \in 1..k - 1 :
               /\ line[c] \in Upper
               /\ \A j \in 1..c - 1 : line[j] \in Space
               /\ \A j \in c + 1..k - 1 : line[j] \in Letter \cup Space

\* The line of rest that starts after the line break at p.
LineAfter(rest, p) == Split(SubSeq(rest, p + 1, Len(rest)), {"\n"})[1]

\* The text from the start of rest to the start of the next header-like line,
\* or all of rest when no later line is header-like.
UpToNextHeader(rest) ==
    LET breaks == {p \in 1..Len(rest) : rest[p] = "\n" /\ HeaderLike(LineAfter(rest, p))}
    IN  IF breaks = {} THEN rest
        ELSE SubSeq(rest, 1, (CHOOSE p \in breaks : \A q \in breaks : p <= q) - 1)

\* The block of a heading as the claim describes it.
HeadingBlock(text, re) ==
    Let(Search(text, re, 0),
        LAMBDA m : IF ~m.ok THEN None
                   ELSE Some(Trim(UpToNextHeader(SubSeq(text, m.end, Len(text))))))

\* The items of a block: split on line breaks, semicolons, periods and commas.
ItemsOf(block) ==
    IF block = None \/ block[1] = <<>> THEN <<>>
    ELSE StrAll(TrimAll(Split(block[1], {"\n", ";", ".", ","})))

allergies == IF document.history = None THEN <<>> ELSE document.history[1].allergies

\* C11: block extraction. The block of a heading that matches is the trimmed
\* text from just after the heading match up to the start of the next line
\* that begins with a capitalized word followed by a colon or a dash, or the
\* rest of the text when there is no such line; a following line without a
\* colon or dash stays inside the block. Observed on the notes (the block
\* itself) and on the allergies (the items of the block).
BlockEndsAtNextHeader ==
    HasReturned =>
        /\ provider = None =>
               document.notes = OptStr(OrUndefined(HeadingBlock(scanned.text, NotesHeading)))
        /\ allergies = ItemsOf(HeadingBlock(scanned.text, AllergiesHeading))

SpeakerLabels == {"Doctor", "Patient", "Unknown"}
\* The same utterances, all attributed to one speaker.
Relabelled(utterances, speaker) ==
    [i \in 1..Len(utterances) |-> Utterance(speaker, utterances[i].text)]
\* The trimmed texts of the utterances that are not blank, in order.
SpokenLines(utterances) ==
    SelectSeq([i \in 1..Len(utterances) |-> Trim(Chars(OrEmpty(utterances[i].text)))],
              LAMBDA line : line # <<>>)
IsBlank(u) == Trim(Chars(OrEmpty(u.text))) = <<>>

\* C12: text normalization. The text the extractors see holds one line per
\* utterance that is not blank, in utterance order, each line the trimmed text
\* of its utterance; blank utterances leave no line, not even an empty one;
\* and the document does not depend on who spoke: the call on the same
\* utterances attributed to any one speaker returns the same document.
TextIsSpokenLines ==
    HasReturned =>
        /\ TrimAll(Split(normalizedText(transcript), {"\n"})) = SpokenLines(transcript)
        /\ Len(Split(normalizedText(transcript), {"\n"})) <= Len(SpokenLines(transcript)) + 1
        /\ SpokenLines(transcript) # <<>> =>
               Len(Split(normalizedText(transcript), {"\n"})) = Len(SpokenLines(transcript))
        /\ SpokenLines(transcript) = <<>> => normalizedText(transcript) = <<>>
        /\ \A speaker \in SpeakerLabels :
               parse(Relabelled(transcript, speaker), provider, document.createdAt, lastMeds)
                   = result

\* C12 witness: three utterances by three speakers, the last one blank, have
\* been parsed into a text of two lines.
TextIsSpokenLinesWitness ==
    /\ HasReturned
    /\ Len(transcript) = 3
    /\ IsBlank(transcript[3])
    /\ transcript[3].text # Some("")
    /\ Cardinality({transcript[i].speaker : i \in 1..3}) = 3
    /\ Len(Split(normalizedText(transcript), {"\n"})) = 2
    /\ document.patient.name = Some("Alice Green")

\* The name patterns that match somewhere in the text, by their place in the
\* list, and the pattern of the label 'Name:' and of the title 'Mr'.
NameHits(text) == {j \in 1..Len(NamePatterns) : Test(text, NamePatterns[j])}
NameLabel == 2
MrTitle == 3
Titles == {3, 4, 5}

\* C13: name extraction. The name is the captured group of the first pattern,
\* in list order, that matches anywhere in the text, wherever the later
\* patterns match; so the name after 'Name:' is taken when a title matches
\* too, and the name is absent exactly when no pattern matches.
FirstPatternInListWins ==
    HasReturned =>
        LET hits == NameHits(scanned.text)
            first == CHOOSE j \in hits : \A k \in hits : j <= k
        IN  /\ hits = {} <=> document.patient.name = None
            /\ hits # {} =>
                   document.patient.name =
                       OptStr(Cap(scanned.text, Search(scanned.text, NamePatterns[first], 1), 1))
            /\ (NameLabel \in hits /\ hits \subseteq {NameLabel} \cup Titles) =>
                   document.patient.name =
                       OptStr(Cap(scanned.text, Search(scanned.text, NamePatterns[NameLabel], 1), 1))

\* C13 witness: a text in which 'Mr. Brown' comes before 'Name: Alice Green'
\* has been parsed, and the name is the one after the label.
FirstPatternInListWinsWitness ==
    /\ HasReturned
    /\ NameHits(scanned.text) = {NameLabel, MrTitle}
    /\ Search(scanned.text, NamePatterns[MrTitle], 1).index
           < Search(scanned.text, NamePatterns[NameLabel], 1).index
    /\ document.patient.name = Some("Alice Green")

\* C14: independent medication patterns. Every match of every pattern adds
\* one entry, so a phrase that k of the patterns match gives k entries, and
\* the list holds the entries pattern by pattern in the order of the pattern
\* list, in text order within a pattern.
EveryMatchIsAnEntry ==
    HasReturned =>
        /\ Len(medications) = scanned.found.matches
        /\ [i \in 1..Len(medications) |-> medications[i].name]
               = [i \in 1..Len(scanned.found.meds) |-> scanned.found.meds[i].name]

\* The entries as the pattern loops pushed them and the warning step left
\* them, before the global instruction is looked for.
beforeBackfill == addWarnings(scanned.found.meds, scanned.warningLines)
LacksInstructions(med) == med.instructions = None \/ med.instructions = Some("")

\* C15: global-instruction backfill. When the text holds a 'take all
\* medications ...' instruction, every medication without instructions of its
\* own gets exactly that instruction and every other medication keeps its
\* own; without such an instruction nothing changes; and the step changes no
\* other field of any medication, nor the number or order of the medications.
BackfillOnlyWhereMissing ==
    HasReturned =>
        /\ Len(medications) = Len(beforeBackfill)
        /\ Test(scanned.text, GlobalInstructionPattern) <=> scanned.specialInstructions # None
        /\ \A i \in 1..Len(medications) :
               /\ medications[i].instructions =
                      IF scanned.specialInstructions # None /\ LacksInstructions(beforeBackfill[i])
                      THEN scanned.specialInstructions
                      ELSE beforeBackfill[i].instructions
               /\ [medications[i] EXCEPT !.instructions = None]
                      = [beforeBackfill[i] EXCEPT !.instructions = None]

\* C15 witness: a text with the instruction 'Take all medications with food'
\* has been parsed; one medication had no instructions and got 'with food',
\* another had its own and kept them.
BackfillOnlyWhereMissingWitness ==
    /\ HasReturned
    /\ scanned.specialInstructions = Some("with food")
    /\ \E i, j \in 1..Len(medications) :
           /\ LacksInstructions(beforeBackfill[i])
           /\ medications[i].instructions = Some("with food")
           /\ medications[i].name = "Metformin"
           /\ ~LacksInstructions(beforeBackfill[j])
           /\ medications[j].instructions = Some("1 tablet")

\* The vitals of the document and the matches of the five vitals patterns.
vitals == document.vitals
tempMatch == Search(scanned.text, TempPattern, 1)
HasSpaceC(text) == \E i \in 1..Len(text) - 1 : text[i] = " " /\ text[i + 1] = "C"
\* The last character of a string, and the string without its last two.
LastChar(s) == SubSeq(s, Len(s), Len(s))
NumberPart(s) == SubSeq(s, 1, Len(s) - 2)

\* C16: temperature unit. A reported temperature is the matched number, a
\* space and a unit letter; the letter is C exactly when a space followed by
\* a capital C occurs somewhere in the text, and F otherwise, whatever letter
\* followed the matched number.
UnitFromWholeText ==
    (HasReturned /\ vitals # None /\ vitals[1].temperature # None) =>
        /\ NumberPart(vitals[1].temperature[1]) = Str(Cap(scanned.text, tempMatch, 1)[1])
        /\ NumberPart(vitals[1].temperature[1]) \o " " \o LastChar(vitals[1].temperature[1])
               = vitals[1].temperature[1]
        /\ LastChar(vitals[1].temperature[1]) = (IF HasSpaceC(scanned.text) THEN "C" ELSE "F")

\* C16 witness: the temperature '98.6 F' was matched in a text that says
\* 'Vitamin C' further on, and it is reported as '98.6 C'.
UnitFromWholeTextWitness ==
    /\ HasReturned
    /\ vitals # None
    /\ tempMatch.ok
    /\ scanned.text[tempMatch.end - 1] = "F"
    /\ vitals[1].temperature = Some("98.6 C")

\* Whether a vitals pattern matches somewhere in the text of the call.
Matched(re) == Test(scanned.text, re)

\* C17: presence of vitals. The document has vitals exactly when at least
\* one of the five vitals patterns matches the text, and then each of the
\* five fields is set exactly when its own pattern matches.
VitalsFollowTheirPatterns ==
    HasReturned =>
        /\ vitals # None <=> \/ Matched(BpPattern) \/ Matched(HrPattern) \/ Matched(RrPattern)
                             \/ Matched(TempPattern) \/ Matched(Spo2Pattern)
        /\ vitals # None =>
               /\ vitals[1].bloodPressure # None <=> Matched(BpPattern)
               /\ vitals[1].heartRate # None <=> Matched(HrPattern)
               /\ vitals[1].respiratoryRate # None <=> Matched(RrPattern)
               /\ vitals[1].temperature # None <=> Matched(TempPattern)
               /\ vitals[1].spo2 # None <=> Matched(Spo2Pattern)

\* C17 witness: a text with a respiratory rate, a temperature and a
\* saturation but no blood pressure and no heart rate has been parsed.
VitalsFollowTheirPatternsWitness ==
    /\ HasReturned
    /\ vitals = Some([ bloodPressure |-> None, heartRate |-> None,
                       respiratoryRate |-> Some("16 breaths/min"),
                       temperature |-> Some("37 F"), spo2 |-> Some("98%") ])

\* C18: stamps of a parsed document. Every document parse returns has
\* version 1 and one time, read during a call, as its creation and as its
\* update time, whatever the input and however many calls came before.
FreshDocumentStamps ==
    HasReturned =>
        /\ document.version = 1
        /\ document.createdAt = document.updatedAt
        /\ document.createdAt \in 1..clock

\* C18 witness: a second call on the same transcript has returned a document
\* with medications, stamped with the time of that call and version 1.
FreshDocumentStampsWitness ==
    /\ HasReturned
    /\ firstResult # result
    /\ medications # <<>>
    /\ document.version = 1
    /\ document.updatedAt = 2

(***************************************************************************)
(* Properties of App                                                       *)
(***************************************************************************)

VersionNumbers(history) == [i \in 1..Len(history) |-> history[i].version]
StrictlyIncreasing(numbers) ==
    \A i, j \in 1..Len(numbers) : i < j => numbers[i] < numbers[j]
\* Whether the history holds an entry with this version number.
InHistory(versionNumber) == \E i \in 1..Len(versions) : versions[i].version = versionNumber
\* The step is a save, or a revert to a version the history holds.
SavedOrReverted ==
    \/ lastCall'.op = "save"
    \/ lastCall'.op = "revert" /\ InHistory(lastCall'.arg)

\* C19: version history. Every save and every revert to a version in the
\* history appends exactly one entry, the document now on screen; no other
\* step changes the history; no entry already there is changed or removed;
\* the version numbers of the history are strictly increasing; and the
\* document on screen has the version number of the last entry.
HistoryOnlyGrows ==
    [][ /\ SubSeq(versions', 1, Len(versions)) = versions
        /\ Len(versions') = Len(versions) + (IF SavedOrReverted THEN 1 ELSE 0)
        /\ StrictlyIncreasing(VersionNumbers(versions'))
        /\ versions' # <<>> =>
               /\ doc' # None
               /\ doc'[1].version = versions'[Len(versions')].version
        /\ SavedOrReverted => versions'[Len(versions')].document = doc'[1] ]_vars

\* C19 witness: after two saves and a revert to the first of them the history
\* holds versions 2, 3 and 4 and the document on screen is version 4 with the
\* content of version 2.
HistoryOnlyGrowsWitness ==
    /\ VersionNumbers(versions) = <<2, 3, 4>>
    /\ lastCall = [op |-> "revert", arg |-> 2]
    /\ doc # None
    /\ doc[1].version = 4
    /\ versions[1].document.patient.name # versions[2].document.patient.name
    /\ doc[1].patient.name = versions[1].document.patient.name

ChangeTypes(trail) == [i \in 1..Len(trail) |-> trail[i].changeType]
\* The step appends one audit entry of this type, stamped during the step
\* and with an actor.
Recorded(changeType) ==
    /\ Len(auditTrail') = Len(auditTrail) + 1
    /\ auditTrail'[Len(auditTrail')].changeType = changeType
    /\ auditTrail'[Len(auditTrail')].timestamp \in clock + 1..clock'
    /\ auditTrail'[Len(auditTrail')].actor = "Provider"

PrivacyModeOnlyMasksDisplay ==
    editor.mounted =>
        /\ editor.draft = editor.meant
        /\ editor.saved # None => editor.saved[1] = editor.meant


(***************************************************************************)
(* Properties of AudioRecorder                                             *)
(***************************************************************************)

Offered(c) == c \in rendered(audioRecorder)
Enabled(c) == c \in enabled(audioRecorder)
Clicked(c) == audioRecorder.clicked = Some(c)

\* C22: the controls follow the recording state.  Start is offered exactly
\* when isListening is false and Stop exactly when it is true; Pause is
\* enabled only when listening, not paused and not uploading, Continue only
\* when listening, paused and not uploading, so the two are never enabled
\* together; a click on one of the four controls invokes its own callback,
\* once, and nothing else.
ControlsFollowRecordingState ==
    audioRecorder.mounted =>
        LET props == audioRecorder.props
        IN  /\ Offered("Start") <=> ~props.isListening
            /\ Offered("Stop") <=> props.isListening
            /\ Enabled("Pause") =>
                   props.isListening /\ ~props.isPaused /\ ~props.isUploading
            /\ Enabled("Continue") =>
                   props.isListening /\ props.isPaused /\ ~props.isUploading
            /\ ~(Enabled("Pause") /\ Enabled("Continue"))
            /\ Clicked("Start") => audioRecorder.called = <<"onStart">>
            /\ Clicked("Pause") => audioRecorder.called = <<"onPause">>
            /\ Clicked("Continue") => audioRecorder.called = <<"onResume">>
            /\ Clicked("Stop") => audioRecorder.called = <<"onStop">>
            /\ \A c \in {"Start", "Stop", "Pause", "Continue"} :
                   Clicked(c) => Enabled(c)

\* Continue has been clicked while the recording was paused, and onResume
\* was called.
ControlsFollowRecordingStateWitness ==
    /\ audioRecorder.mounted
    /\ Clicked("Continue")
    /\ audioRecorder.props.isPaused
    /\ audioRecorder.called = <<"onResume">>
    /\ ~Enabled("Pause")

\* C23: while an upload is in progress and the recorder is not listening,
\* with uploadProgress p, the component displays the text '<p>% Uploaded'.
ShowsPercentUploaded ==
    audioRecorder.mounted =>
        LET props == audioRecorder.props
        IN  props.isUploading /\ ~props.isListening =>
                (Decimal(props.uploadProgress) \o "% Uploaded")
                    \in displayed(audioRecorder)


(***************************************************************************)
(* Properties of WebSpeechTranscriber                                      *)
(***************************************************************************)

\* C24: after stop() the transcriber never calls recognition.start() from
\* its end handler until start() or resume() is called again, whatever the
\* order of the engine's start and end events and the calls.
NoRestartAfterStop ==
    transcriber.mounted =>
        ~(/\ transcriber.stopCalled
          /\ transcriber.lastOp = "onend"
          /\ transcriber.calledStart)

\* C25: after pause() on a listening transcriber, with no engine error, the
\* status last delivered to onStatusChange stays 'paused' until resume() or
\* stop() is called; the end event the pause causes does not restart
\* recognition.
PausedUntilResumeOrStop ==
    transcriber.mounted /\ transcriber.pauseHeld =>
        /\ transcriber.status = Some("paused")
        /\ ~(transcriber.lastOp = "onend" /\ transcriber.calledStart)


(***************************************************************************)
(* Properties of useAudioRecorder                                          *)
(***************************************************************************)

HoldsLiveRecorder(h) ==
    /\ h.mediaRecorderRef # 0
    /\ h.recorders[h.mediaRecorderRef].state # "inactive"
    /\ h.streamRef # 0
    /\ h.live[h.streamRef]

\* C26: whenever isListening is true and no startRecording is in progress,
\* the hook holds a MediaRecorder that is not inactive and a live stream;
\* the stop event of a recorder that startRecording replaced does not
\* release the resources of the new recorder while isListening stays true.
ListeningHoldsLiveRecorder ==
    recorder.mounted /\ recorder.isListening /\ inFlight(recorder) = 0 =>
        HoldsLiveRecorder(recorder)


\* A step in which the stop event of a recorder is handled.
StopHandled ==
    /\ recorder.mounted
    /\ recorder'.lastOp.op = "stop"
    /\ recorder' # recorder

Released(before, after) ==
    /\ after.streamRef = 0
    /\ after.audioMeterRef = 0
    /\ after.mediaRecorderRef = 0
    /\ after.audioChunks = <<>>
    /\ before.streamRef # 0 => ~after.live[before.streamRef]
    /\ before.mediaRecorderRef # 0 =>
           after.recorders[before.mediaRecorderRef].state = "inactive"

Alternating(silences) == \A k \in 1..Len(silences) : silences[k] = (k % 2 = 1)

\* C28: within a session from start() to stop(), onSilence(true) is
\* delivered only when the timer has expired and every sample since it was
\* armed was below silenceThreshold; the onSilence calls alternate true,
\* false, true, ... beginning with true; at most one silence timer is
\* pending; after stop() neither onSilence nor onLevel is delivered.
SilenceFollowsQuietSamples ==
    meter.mounted =>
        /\ meter.lastOp = "timeout" => meter.quiet
        /\ Alternating(meter.silences)
        /\ Cardinality(meter.timers) <= 1
        /\ ~meter.running =>
               meter.called = <<>> /\ meter.timers = {} /\ ~meter.rafPending

\* Silence was reported, speech ended it, silence was reported again, and
\* the meter was stopped while a timer was pending.
SilenceFollowsQuietSamplesWitness ==
    /\ meter.mounted
    /\ meter.silences = <<TRUE, FALSE, TRUE>>
    /\ meter.lastOp = "stop"
    /\ ~meter.running


(***************************************************************************)
(* Properties of TranscriptionEditor                                       *)
(***************************************************************************)

\* C29: a click on Generate Prescription calls onAnalyze only when the
\* validation of the text on screen has no critical error, whatever the
\* order of the text changes, the debounced validation and the click.
AnalyzeOnlyValidText ==
    transcriptionEditor.mounted /\ transcriptionEditor.lastOp = "onAnalyze" =>
        validateTranscription(transcriptionEditor.transcription).errors = <<>>

(***************************************************************************)
(* Properties of the branch dispatch                                       *)
(***************************************************************************)

\* The group of the drug name in the plain, prescribe, start and continue
\* patterns: the plain pattern has the optional "Take " group before it.
drugGroup(j) == IF j = 1 THEN 2 ELSE 1

\* name = drug group, dose = dose group, remaining text = trailing group,
\* duration = "for ..." group, each trimmed as the standard branch trims.
byPattern(text, m, j) ==
    [ name |-> OptTrim(MedCap(text, m, drugGroup(j))),
      dose |-> OptTrim(MedCap(text, m, drugGroup(j) + 1)),
      rest |-> OrEmpty(OptTrim(MedCap(text, m, drugGroup(j) + 2))),
      duration |-> OptTrim(MedCap(text, m, drugGroup(j) + 3)) ]

\* The loop body has just handled a match of the plain, prescribe, start or
\* continue pattern.
HandledNamedPattern ==
    /\ extraction.running
    /\ extraction.last # None
    /\ extraction.last[1].pattern \in 1..4

\* C30: a match of the plain, prescribe, start or continue pattern is handled
\* by the standard branch, whatever words its text holds, and its fields are
\* the pattern's own groups: name the drug group, dose the dose group, the
\* remaining text the trailing group and the duration the "for ..." group.
MappingFollowsPattern ==
    HandledNamedPattern =>
        Let(extraction.last[1],
            LAMBDA h : /\ h.branch = "standard"
                       /\ h.fields = byPattern(extraction.text, h.match, h.pattern))

=============================================================================
